---- MODULE Spec2Model ----
(***************************************************************************)
(* A model of the bespoke review scheduler: the urgency helpers of         *)
(* bespoke/urgency.py as operators, and the Deck of bespoke/deck.py as a   *)
(* state machine.                                                          *)
(*                                                                         *)
(* Times are whole seconds.  A float urgency is kept as a record           *)
(* [tier, n, d]: tier 1 is the literal 1.0, tier -1 the literal -1.0, and  *)
(* tier 0 is sigmoid(n/d) - 0.5 with n/d in lowest terms (0.0 is           *)
(* sigmoid(0) - 0.5).  The sigmoid is strictly increasing, so values of    *)
(* tier 0 are ordered by n/d.                                              *)
(***************************************************************************)
EXTENDS Integers, Sequences, FiniteSets, TLC

VARIABLES
    history,       \* SpecU: the rating history handed to the urgency helpers
    ratings,       \* Deck._ratings: unit -> list of Rating
    card_id_uses,  \* Deck._card_id_uses: card id -> list of CardUsage
    difficulty,    \* Deck._difficulty
    modes,         \* Deck._modes
    card_index,    \* Deck._card_index: the indexed card ids and the card files
    now,           \* the wall clock, datetime.now().timestamp()
    ticks,         \* how often the clock has advanced
    result,        \* what the last call on the deck returned or raised
    tags_builder,  \* a UnitTagsBuilder: sentence, unit_tags, _no_progress_counter
    unit_producer, \* a UnitProducer: its counts, remaining units, pools, _done
    sentence_producer, \* a SentenceProducer: _cards_per_call, _grammar_pools
    flash_card,    \* a Card: sentence, unit_tags
    web_app,       \* a RatingWebApp: page, _mode, _card, _ratings, its calls
    deck_builder   \* DeckBuilder.create_cards: its semaphore and its tasks

deckVars ==
    <<ratings, card_id_uses, difficulty, modes, card_index, now, ticks, result>>

\* the sentence producer built on a unit producer, a card, the web app and
\* the deck builder
appVars == <<sentence_producer, flash_card, web_app, deck_builder>>

buildVars == <<tags_builder, unit_producer, appVars>>

vars == <<history, deckVars, buildVars>>

(* ------------------------- urgency.py: constants ----------------------- *)

BLOCK_INTERVAL == 72000

ALL_GREEN_MINIMUM == 1209600

\* INTERVAL_DECAY = 0.5 = 1 / INTERVAL_DECAY_DEN
INTERVAL_DECAY_DEN == 2

\* INTERVAL_FACTOR = 0.8 = INTERVAL_FACTOR_NUM / INTERVAL_FACTOR_DEN
INTERVAL_FACTOR_NUM == 4

INTERVAL_FACTOR_DEN == 5

\* good_block = -1e5 before the first rating
GOOD_BLOCK_START == -100000

\* In IEEE double arithmetic 1.0 + exp(-x) is 1.0 once x >= 53 ln 2 (36.74),
\* so the sigmoid of a deviation of 37 or more is exactly 1.0.
SIGMOID_SATURATION == 37

\* class Mode(StrEnum), in declaration order
Mode == <<"listen", "speak", "read", "write">>

ModeSet == {Mode[i] : i \in 1..Len(Mode)}

\* Mode is a StrEnum: Python orders its members as strings.
ModeStrRank(m) ==
    CASE m = "listen" -> 1
      [] m = "read" -> 2
      [] m = "speak" -> 3
      [] m = "write" -> 4

\* class Rating
Rating(m, t, s) == [mode |-> m, time |-> t, score |-> s]

\* Python's None, and a present optional value
None == <<>>

Some(x) == <<x>>

(* ------------------------- rational helpers ---------------------------- *)

RECURSIVE Gcd(_, _)
Gcd(a, b) == IF b = 0 THEN a ELSE Gcd(b, a % b)

Abs(x) == IF x < 0 THEN -x ELSE x

\* a/b < c/d for b > 0 and d > 0, without forming a product
RECURSIVE RatLess(_, _, _, _)
RatLess(a, b, c, d) ==
    LET qa == a \div b
        qc == c \div d
        ra == a % b
        rc == c % d
    IN  IF qa # qc THEN qa < qc
        ELSE IF rc = 0 THEN FALSE
        ELSE IF ra = 0 THEN TRUE
        ELSE RatLess(d, rc, b, ra)

\* the larger of the rationals a/b and c/d (the first when equal), as <<n, d>>
RatMax(a, b, c, d) == IF RatLess(a, b, c, d) THEN <<c, d>> ELSE <<a, b>>

(* ------------------------- float urgencies ----------------------------- *)

UrgOne == [tier |-> 1, n |-> 0, d |-> 1]

UrgMinusOne == [tier |-> -1, n |-> 0, d |-> 1]

UrgZero == [tier |-> 0, n |-> 0, d |-> 1]

\* 1.0 / (1.0 + np.exp(-deviation)) - 0.5 for deviation = n/d, d > 0
Sigmoid(n, d) ==
    IF n >= SIGMOID_SATURATION * d
    THEN [tier |-> 0, n |-> SIGMOID_SATURATION, d |-> 1]
    ELSE LET g == Gcd(Abs(n), d)
         IN  [tier |-> 0, n |-> n \div g, d |-> d \div g]

\* a < b on floats
UrgLess(a, b) ==
    \/ a.tier < b.tier
    \/ a.tier = 0 /\ b.tier = 0 /\ RatLess(a.n, a.d, b.n, b.d)

\* a > 0.0
UrgPositive(a) == a.tier = 1 \/ (a.tier = 0 /\ a.n > 0)

(* ------------------------- _extract_good_interval ---------------------- *)

\* the loop body of _extract_good_interval for one rating; good_interval_length
\* is the rational gn/gd
ExtractStep(st, rating, mode) ==
    LET inMode ==
            IF rating.mode # mode THEN st
            ELSE IF rating.score \in {1, 2}
            THEN [st EXCEPT !.has_red = TRUE,
                            !.gd = st.gd * INTERVAL_DECAY_DEN,
                            !.first_good = None,
                            !.last_good = None]
            ELSE IF rating.score = 3 /\ rating.time > st.good_block
            THEN IF st.first_good = None
                 THEN [st EXCEPT !.has_green = TRUE,
                                 !.last_good = Some(rating.time),
                                 !.first_good = Some(rating.time)]
                 ELSE LET mx == RatMax(st.gn, st.gd,
                                       rating.time - st.first_good[1], 1)
                      IN  [st EXCEPT !.has_green = TRUE,
                                     !.last_good = Some(rating.time),
                                     !.gn = mx[1],
                                     !.gd = mx[2]]
            ELSE st
    IN  [inMode EXCEPT !.good_block = rating.time + BLOCK_INTERVAL]

RECURSIVE ExtractLoop(_, _, _, _)
ExtractLoop(st, h, i, mode) ==
    IF i > Len(h) THEN st
    ELSE ExtractLoop(ExtractStep(st, h[i], mode), h, i + 1, mode)

\* a slip: the all-green minimum is not applied
_extract_good_interval_no_floor(h, mode) ==
    LET st0 == [first_good |-> None, last_good |-> None,
                good_block |-> GOOD_BLOCK_START, gn |-> 1, gd |-> 1,
                has_red |-> FALSE, has_green |-> FALSE]
        st == ExtractLoop(st0, h, 1, mode)
    IN  [last_good |-> st.last_good, gn |-> st.gn, gd |-> st.gd]

\* _extract_good_interval(history, mode): [last_good, gn, gd] with
\* good_interval_length = gn/gd
_extract_good_interval(h, mode) ==
    LET st0 == [first_good |-> None, last_good |-> None,
                good_block |-> GOOD_BLOCK_START, gn |-> 1, gd |-> 1,
                has_red |-> FALSE, has_green |-> FALSE]
        st == ExtractLoop(st0, h, 1, mode)
        len == IF st.has_green /\ ~st.has_red
               THEN RatMax(st.gn, st.gd, ALL_GREEN_MINIMUM, 1)
               ELSE <<st.gn, st.gd>>
    IN  [last_good |-> st.last_good, gn |-> len[1], gd |-> len[2]]

(* ------------------------- needs_introduction -------------------------- *)

\* a slip: a success within the block interval is taken as a first score
IntroStepUnblocked(st, rating) ==
    LET greens == IF rating.score = 3
                  THEN [st.greens EXCEPT ![rating.mode] = @ + 1]
                  ELSE st.greens
        first == IF st.first_score[rating.mode] > 0 THEN st.first_score
                 ELSE IF rating.score \in {1, 2, 3}
                 THEN [st.first_score EXCEPT ![rating.mode] = rating.score]
                 ELSE st.first_score
    IN  [greens |-> greens, first_score |-> first, last_time |-> rating.time]

\* the loop body of needs_introduction for one rating
IntroStep(st, rating) ==
    LET greens == IF rating.score = 3
                  THEN [st.greens EXCEPT ![rating.mode] = @ + 1]
                  ELSE st.greens
        is_blocked == rating.time < st.last_time + BLOCK_INTERVAL
        first == IF st.first_score[rating.mode] > 0 THEN st.first_score
                 ELSE IF rating.score \in {1, 2}
                 THEN [st.first_score EXCEPT ![rating.mode] = rating.score]
                 ELSE IF rating.score = 3 /\ ~is_blocked
                 THEN [st.first_score EXCEPT ![rating.mode] = rating.score]
                 ELSE st.first_score
    IN  [greens |-> greens, first_score |-> first, last_time |-> rating.time]

RECURSIVE IntroLoop(_, _, _)
IntroLoop(st, h, i) ==
    IF i > Len(h) THEN st ELSE IntroLoop(IntroStep(st, h[i]), h, i + 1)

\* greens and first_score after the loop of needs_introduction
IntroScan(h) ==
    IntroLoop([greens |-> [m \in ModeSet |-> 0],
               first_score |-> [m \in ModeSet |-> 0],
               last_time |-> h[1].time - 2 * BLOCK_INTERVAL], h, 1)

MIN_GREENS == 2

\* a slip: a mode with exactly MIN_GREENS greens still counts as lacking
RECURSIVE FirstLackingOffByOne(_, _, _)
FirstLackingOffByOne(st, ms, i) ==
    IF i > Len(ms) THEN None
    ELSE IF st.greens[ms[i]] <= MIN_GREENS /\ st.first_score[ms[i]] # 3
    THEN Some(ms[i])
    ELSE FirstLackingOffByOne(st, ms, i + 1)

\* a slip: the modes are scanned in declaration order, not in configured order
FirstLackingDeclared(st, ms, i) ==
    LET lacking == {k \in 1..Len(Mode) :
                       /\ \E j \in i..Len(ms) : ms[j] = Mode[k]
                       /\ st.greens[Mode[k]] < MIN_GREENS
                       /\ st.first_score[Mode[k]] # 3}
    IN  IF lacking = {} THEN None
        ELSE Some(Mode[CHOOSE k \in lacking : \A j \in lacking : k <= j])

\* the first mode of ms, from position i on, that lacks greens and a green start
RECURSIVE FirstLacking(_, _, _)
FirstLacking(st, ms, i) ==
    IF i > Len(ms) THEN None
    ELSE IF st.greens[ms[i]] < MIN_GREENS /\ st.first_score[ms[i]] # 3
    THEN Some(ms[i])
    ELSE FirstLacking(st, ms, i + 1)

\* a slip: the empty history is not told apart from a finished introduction
needs_introduction_no_empty_case(h, ms) ==
    IF Len(ms) = 0 THEN None
    ELSE IF Len(h) = 0 THEN None
    ELSE LET st == IntroScan(h)
         IN  IF /\ \E m \in ModeSet : st.first_score[m] = 3
                /\ \A m \in ModeSet : st.first_score[m] \in {0, 3}
             THEN None
             ELSE FirstLacking(st, ms, 1)

\* a slip: the perfect start is not detected
needs_introduction_no_exemption(h, ms) ==
    IF Len(ms) = 0 THEN None
    ELSE IF Len(h) = 0 THEN Some(ms[1])
    ELSE FirstLacking(IntroScan(h), ms, 1)

\* needs_introduction(history, modes): None or Some(mode)
needs_introduction(h, ms) ==
    IF Len(ms) = 0 THEN None
    ELSE IF Len(h) = 0 THEN Some(ms[1])
    ELSE LET st == IntroScan(h)
         IN  IF /\ \E m \in ModeSet : st.first_score[m] = 3
                /\ \A m \in ModeSet : st.first_score[m] \in {0, 3}
             THEN None
             ELSE FirstLacking(st, ms, 1)

(* ------------------------- compute_urgency ----------------------------- *)

\* the index of the last rating of mode with a nonzero score, 0 if there is none
LastNonZero(h, mode) ==
    LET idx == {i \in 1..Len(h) : h[i].mode = mode /\ h[i].score # 0}
    IN  IF idx = {} THEN 0 ELSE CHOOSE i \in idx : \A j \in idx : j <= i

\* a slip: the target is last_good + good_interval_length, without the factor
IntervalUrgencyNoFactor(h, mode, current_time) ==
    LET e == _extract_good_interval(h, mode)
    IN  IF e.last_good = None THEN UrgOne
        ELSE Sigmoid(e.gd * (current_time - e.last_good[1]) - e.gn, e.gn)

\* compute_urgency past the block test: the good interval and the sigmoid
IntervalUrgency(h, mode, current_time) ==
    LET e == _extract_good_interval(h, mode)
    IN  IF e.last_good = None THEN UrgOne
        ELSE \* target_interval = (gn/gd) * INTERVAL_FACTOR
             \* deviation = (current_time - last_good - target_interval)
             \*             / target_interval
             Sigmoid(INTERVAL_FACTOR_DEN * e.gd * (current_time - e.last_good[1])
                       - INTERVAL_FACTOR_NUM * e.gn,
                     INTERVAL_FACTOR_NUM * e.gn)

\* a slip: the block test comes before the test of the last nonzero score
compute_urgency_block_first(h, mode, current_time) ==
    IF LastNonZero(h, mode) = 0 THEN UrgZero
    ELSE IF current_time < h[Len(h)].time + BLOCK_INTERVAL THEN UrgMinusOne
    ELSE IF h[LastNonZero(h, mode)].score \in {1, 2} THEN UrgOne
    ELSE IntervalUrgency(h, mode, current_time)

\* a slip: the default for new units looks at the modes only, not the scores
compute_urgency_zero_by_mode(h, mode, current_time) ==
    IF \A i \in 1..Len(h) : h[i].mode # mode THEN UrgZero
    ELSE IF LastNonZero(h, mode) # 0 /\ h[LastNonZero(h, mode)].score \in {1, 2}
    THEN UrgOne
    ELSE IF current_time < h[Len(h)].time + BLOCK_INTERVAL THEN UrgMinusOne
    ELSE IntervalUrgency(h, mode, current_time)

\* a slip: the block window has no length
compute_urgency_no_interval(h, mode, current_time) ==
    IF LastNonZero(h, mode) = 0 THEN UrgZero
    ELSE IF h[LastNonZero(h, mode)].score \in {1, 2} THEN UrgOne
    ELSE IF current_time < h[Len(h)].time THEN UrgMinusOne
    ELSE IntervalUrgency(h, mode, current_time)

\* a slip: the block window starts at the last rating of the mode itself
compute_urgency_block_in_mode(h, mode, current_time) ==
    IF LastNonZero(h, mode) = 0 THEN UrgZero
    ELSE IF h[LastNonZero(h, mode)].score \in {1, 2} THEN UrgOne
    ELSE IF current_time <
              h[CHOOSE i \in 1..Len(h) :
                   /\ h[i].mode = mode
                   /\ \A j \in (i + 1)..Len(h) : h[j].mode # mode].time
                + BLOCK_INTERVAL
    THEN UrgMinusOne
    ELSE IntervalUrgency(h, mode, current_time)

\* a slip: only score 1 counts as a failure
compute_urgency_red_only(h, mode, current_time) ==
    IF LastNonZero(h, mode) = 0 THEN UrgZero
    ELSE IF h[LastNonZero(h, mode)].score = 1 THEN UrgOne
    ELSE IF current_time < h[Len(h)].time + BLOCK_INTERVAL THEN UrgMinusOne
    ELSE IntervalUrgency(h, mode, current_time)

\* compute_urgency(history, mode, current_time)
compute_urgency(h, mode, current_time) ==
    IF LastNonZero(h, mode) = 0 THEN UrgZero
    ELSE IF h[LastNonZero(h, mode)].score \in {1, 2} THEN UrgOne
    ELSE IF current_time < h[Len(h)].time + BLOCK_INTERVAL THEN UrgMinusOne
    ELSE IntervalUrgency(h, mode, current_time)

(* ------------------------- the vocabulary and the card store ---------- *)

\* the number of units of the vocabulary
VocabLen == 13

\* Language.full_vocabulary(): the units in increasing difficulty; a unit is
\* named by its place in the vocabulary
_full_vocabulary == [i \in 1..VocabLen |-> i]

Units == {_full_vocabulary[i] : i \in 1..VocabLen}

\* class Difficulty(StrEnum), in declaration order, which is also the order
\* of the members as strings
Difficulty == <<"A1", "A2", "B1", "B2", "C1", "C2">>

DifficultyRank(d) == CHOOSE i \in 1..Len(Difficulty) : Difficulty[i] = d

\* the number of units of the vocabulary of difficulty A1
A1Words == 1

MINIMUM_TOUCH_RATIO_DEN == 2

TOUCH_MARGIN == 10

\* the first unit that is no target while no unit is touched
FarUnit == TOUCH_MARGIN + 2

\* Deck._difficulty_map, built from Language.vocabulary(difficulty): the first
\* units are A1, the units up to the touch margin A2, the far units B1
_difficulty_map(unit) ==
    IF unit <= A1Words THEN "A1" ELSE IF unit < FarUnit THEN "A2" ELSE "B1"

\* Card.units of the cards of the card directory, by card id
CardUnits(c) ==
    CASE c = 1 -> {1}
      [] c = 2 -> {1, 2}
      [] c = 3 -> {2}
      [] c = 4 -> {FarUnit}
      [] c = 5 -> {2}

CardIds == 1..5

\* a card store: the card ids of the index file and the card files that load
Store(ids, files) == [ids |-> ids, files |-> files]

\* the card stores a deck is opened on: empty; cards of the first units;
\* cards of a far unit only; cards of a near and a far unit; an index entry
\* whose file is gone, with and without another card
Stores ==
    {Store({}, {}), Store({1, 2, 3}, {1, 2, 3}), Store({4}, {4}),
     Store({3, 4}, {3, 4}), Store({1, 3}, {3}), Store({1}, {})}

RECURSIVE SortedSeq(_)
SortedSeq(S) ==
    IF S = {} THEN <<>>
    ELSE LET x == CHOOSE a \in S : \A b \in S : a <= b
         IN  <<x>> \o SortedSeq(S \ {x})

\* CardIndex._index.get(unit, []): the ids in the order the cards were added
IndexEntries(unit) ==
    SortedSeq({c \in card_index.ids : unit \in CardUnits(c)})

\* CardIndex.size(unit)
size(unit) == Len(IndexEntries(unit))

\* CardIndex.cards(unit): the indexed cards whose file loads
cards(unit) ==
    SortedSeq({c \in card_index.ids \cap card_index.files : unit \in CardUnits(c)})

(* ------------------------- deck.py: urgency states --------------------- *)

\* self._ratings.get(unit): None or the list
RatingsGet(unit) == IF unit \in DOMAIN ratings THEN Some(ratings[unit]) ELSE None

_is_untouched(h) == \A i \in 1..Len(h) : h[i].score = 0

UrgencyState(touched, intro, target, urgency, mode) ==
    [is_touched |-> touched, needs_introduction |-> intro, is_target |-> target,
     urgency |-> urgency, mode |-> mode]

\* (u1, m1) < (u2, m2) as Python tuples of a float and a Mode
PairLess(u1, m1, u2, m2) ==
    \/ UrgLess(u1, u2)
    \/ ~UrgLess(u2, u1) /\ ModeStrRank(m1) < ModeStrRank(m2)

\* max(pairs) for Python tuples of a float and a Mode
MaxPair(pairs) ==
    pairs[CHOOSE i \in DOMAIN pairs :
              \A j \in DOMAIN pairs :
                  ~PairLess(pairs[i][1], pairs[i][2], pairs[j][1], pairs[j][2])]

\* max((compute_urgency(history, m, current_time), m) for m in ms)
MaxUrgency(h, ms, current_time) ==
    MaxPair([i \in 1..Len(ms) |->
                <<compute_urgency(h, ms[i], current_time), ms[i]>>])

\* history is None or _is_untouched(history), for the history of unit
IsUntouchedUnit(unit) ==
    RatingsGet(unit) = None \/ _is_untouched(RatingsGet(unit)[1])

\* a slip: an untouched unit is given the last configured mode
UnitStateLastMode(unit, has_reached_threshold, current_time) ==
    IF IsUntouchedUnit(unit)
    THEN UrgencyState(FALSE, FALSE, ~has_reached_threshold, UrgZero,
                      modes[Len(modes)])
    ELSE LET mx == MaxUrgency(ratings[unit], modes, current_time)
             introduction_mode == needs_introduction(ratings[unit], modes)
         IN  UrgencyState(TRUE, introduction_mode # None,
                          ~has_reached_threshold, mx[1],
                          IF introduction_mode # None
                          THEN introduction_mode[1] ELSE mx[2])

\* the UrgencyState of a touched unit, from the pair max(...) and the mode
\* needs_introduction returned
TouchedState(mx, introduction_mode, has_reached_threshold) ==
    UrgencyState(TRUE, introduction_mode # None, ~has_reached_threshold, mx[1],
                 IF introduction_mode # None THEN introduction_mode[1] ELSE mx[2])

\* the UrgencyState _compute_urgencies stores for one unit
UnitState(unit, has_reached_threshold, current_time) ==
    IF IsUntouchedUnit(unit)
    THEN UrgencyState(FALSE, FALSE, ~has_reached_threshold, UrgZero, modes[1])
    ELSE TouchedState(MaxUrgency(ratings[unit], modes, current_time),
                      needs_introduction(ratings[unit], modes),
                      has_reached_threshold)

\* a slip: the threshold is tested afresh at every position and forgotten
RECURSIVE ThresholdLoopForgetful(_, _, _)
ThresholdLoopForgetful(pos, touched, reached) ==
    IF pos > Len(_full_vocabulary) THEN <<>>
    ELSE <<MINIMUM_TOUCH_RATIO_DEN * (touched + TOUCH_MARGIN)
               < (pos - 1) + TOUCH_MARGIN>>
         \o ThresholdLoopForgetful(pos + 1,
                                   IF IsUntouchedUnit(_full_vocabulary[pos])
                                   THEN touched ELSE touched + 1,
                                   FALSE)

\* the counters of the loop of _compute_urgencies: has_reached_threshold at
\* the vocabulary positions pos.. (1-based; the code's i is pos - 1), given
\* touched and has_reached_threshold of the pass before
RECURSIVE ThresholdLoop(_, _, _)
ThresholdLoop(pos, touched, reached) ==
    IF pos > Len(_full_vocabulary) THEN <<>>
    ELSE LET has_reached_threshold ==
                 \/ reached
                 \/ MINIMUM_TOUCH_RATIO_DEN * (touched + TOUCH_MARGIN)
                        < (pos - 1) + TOUCH_MARGIN
         IN  <<has_reached_threshold>>
             \o ThresholdLoop(pos + 1,
                              IF IsUntouchedUnit(_full_vocabulary[pos])
                              THEN touched ELSE touched + 1,
                              has_reached_threshold)

\* the has_reached_threshold flags of a pass over the vocabulary
Thresholds == ThresholdLoop(1, 0, FALSE)

\* Deck._compute_urgencies(current_time): unit -> UrgencyState
_compute_urgencies(current_time) ==
    LET has_reached_threshold == Thresholds
    IN  [unit \in Units |->
            UnitState(unit,
                      has_reached_threshold[
                          CHOOSE pos \in 1..Len(_full_vocabulary) :
                              _full_vocabulary[pos] = unit],
                      current_time)]

(* ------------------------- deck.py: _choose_task ----------------------- *)

\* a slip: the units without cards are not skipped, and no unit ends the scan
RECURSIVE TargetUnitsAll(_, _)
TargetUnitsAll(urgency_states, pos) ==
    IF pos > Len(_full_vocabulary) THEN <<>>
    ELSE LET unit == _full_vocabulary[pos]
         IN  IF size(unit) = 0 THEN TargetUnitsAll(urgency_states, pos + 1)
             ELSE <<unit>> \o TargetUnitsAll(urgency_states, pos + 1)

\* the units of target_states, in vocabulary order, from position pos on
RECURSIVE TargetUnits(_, _)
TargetUnits(urgency_states, pos) ==
    IF pos > Len(_full_vocabulary) THEN <<>>
    ELSE LET unit == _full_vocabulary[pos]
         IN  IF size(unit) = 0 THEN TargetUnits(urgency_states, pos + 1)
             ELSE IF urgency_states[unit].is_target
             THEN <<unit>> \o TargetUnits(urgency_states, pos + 1)
             ELSE <<>>

\* the first unit of the list units that is in the set found, None if there
\* is none
FirstWith(units, found) ==
    LET idx == {i \in 1..Len(units) : units[i] \in found}
    IN  IF idx = {} THEN None
        ELSE Some(units[CHOOSE i \in idx : \A j \in idx : i <= j])

\* max(target_states, key=urgency): the first unit of the highest urgency
MaxByUrgency(units, urgency_states) ==
    units[CHOOSE i \in 1..Len(units) :
            /\ \A j \in 1..Len(units) :
                   ~UrgLess(urgency_states[units[i]].urgency,
                            urgency_states[units[j]].urgency)
            /\ \A j \in 1..(i - 1) :
                   UrgLess(urgency_states[units[j]].urgency,
                           urgency_states[units[i]].urgency)]

\* a slip: the untouched units (step 3) are served before the urgent ones
_choose_task_untouched_first(urgency_states) ==
    LET target_units == TargetUnits(urgency_states, 1)
        targets == {target_units[i] : i \in 1..Len(target_units)}
        Urgent == {u \in targets : UrgPositive(urgency_states[u].urgency)}
        Intro == {u \in targets : urgency_states[u].needs_introduction}
        Untouched == {u \in targets : ~urgency_states[u].is_touched}
        Task(step, u) ==
            Some([step |-> step, mode |-> urgency_states[u].mode, unit |-> u])
    IN  IF FirstWith(target_units, Untouched) # None
        THEN Task(3, FirstWith(target_units, Untouched)[1])
        ELSE IF FirstWith(target_units, Urgent) # None
        THEN Task(1, FirstWith(target_units, Urgent)[1])
        ELSE IF FirstWith(target_units, Intro) # None
        THEN Task(2, FirstWith(target_units, Intro)[1])
        ELSE IF Len(target_units) = 0 THEN None
        ELSE Task(4, MaxByUrgency(target_units, urgency_states))

\* a slip: step 1 tests urgency >= 0.0
_choose_task_urgent_from_zero(urgency_states) ==
    LET target_units == TargetUnits(urgency_states, 1)
        targets == {target_units[i] : i \in 1..Len(target_units)}
        Urgent == {u \in targets : ~UrgLess(urgency_states[u].urgency, UrgZero)}
        Intro == {u \in targets : urgency_states[u].needs_introduction}
        Untouched == {u \in targets : ~urgency_states[u].is_touched}
        Task(step, u) ==
            Some([step |-> step, mode |-> urgency_states[u].mode, unit |-> u])
    IN  IF FirstWith(target_units, Urgent) # None
        THEN Task(1, FirstWith(target_units, Urgent)[1])
        ELSE IF FirstWith(target_units, Intro) # None
        THEN Task(2, FirstWith(target_units, Intro)[1])
        ELSE IF FirstWith(target_units, Untouched) # None
        THEN Task(3, FirstWith(target_units, Untouched)[1])
        ELSE IF Len(target_units) = 0 THEN None
        ELSE Task(4, MaxByUrgency(target_units, urgency_states))

\* Deck._choose_task(urgency_states): [step, mode, unit], or None when it
\* raises ValueError("No units found"); step is the step that returned
_choose_task(urgency_states) ==
    LET target_units == TargetUnits(urgency_states, 1)
        targets == {target_units[i] : i \in 1..Len(target_units)}
        Urgent == {u \in targets : UrgPositive(urgency_states[u].urgency)}
        Intro == {u \in targets : urgency_states[u].needs_introduction}
        Untouched == {u \in targets : ~urgency_states[u].is_touched}
        Task(step, u) ==
            Some([step |-> step, mode |-> urgency_states[u].mode, unit |-> u])
    IN  IF FirstWith(target_units, Urgent) # None
        THEN Task(1, FirstWith(target_units, Urgent)[1])
        ELSE IF FirstWith(target_units, Intro) # None
        THEN Task(2, FirstWith(target_units, Intro)[1])
        ELSE IF FirstWith(target_units, Untouched) # None
        THEN Task(3, FirstWith(target_units, Untouched)[1])
        ELSE IF Len(target_units) = 0 THEN None
        ELSE Task(4, MaxByUrgency(target_units, urgency_states))

(* ------------------------- deck.py: _score_card ------------------------ *)

\* Card scores are kept in hundredths of a point.
REPORT_PENALTY == 100000000

CARD_USAGE_FACTOR == 10000

NONTARGET_PENALTY == 2000000

UNTOUCHED_PENALTY == 1000000

INTRODUCTION_BONUS == 100

URGENCY_BONUS == 200

DIFFICULTY_MATCH_BONUS == 10

DIFFICULTY_PENALTY == 10

\* seconds of card age per 1/CARD_USAGE_FACTOR of the exponent
\* CARD_USAGE_DECAY * days: 60 * 60 * 24 / (0.01 * 10000)
DECAY_SECONDS == 864

\* the terms of the exponential series that are summed
EXP_TERMS == 8

RECURSIVE ExpSeries(_, _, _)
ExpSeries(x, k, term) ==
    IF k > EXP_TERMS \/ term = 0 THEN 0
    ELSE (IF k % 2 = 0 THEN term ELSE -term)
         + ExpSeries(x, k + 1, (term * x) \div ((k + 1) * CARD_USAGE_FACTOR))

\* CARD_USAGE_FACTOR * exp(-CARD_USAGE_DECAY * days) for a usage that is `age`
\* seconds old, in hundredths (exact to about one hundredth for ages of up to
\* a year)
UsagePenalty(age) == ExpSeries(age \div DECAY_SECONDS, 0, CARD_USAGE_FACTOR)

RECURSIVE SumSeq(_, _)
SumSeq(f, i) == IF i > Len(f) THEN 0 ELSE f[i] + SumSeq(f, i + 1)

\* the sum of the function f over the set S
RECURSIVE SumOver(_, _)
SumOver(S, f) ==
    IF S = {} THEN 0
    ELSE LET x == CHOOSE a \in S : TRUE IN f[x] + SumOver(S \ {x}, f)

\* self._card_id_uses.get(card.id, [])
UsesGet(card) == IF card \in DOMAIN card_id_uses THEN card_id_uses[card] ELSE <<>>

\* the part of the score one tagged unit adds
UnitScore(state, unit) ==
    (IF ~state.is_target THEN -NONTARGET_PENALTY ELSE 0)
    + (IF ~state.is_touched THEN -UNTOUCHED_PENALTY ELSE 0)
    + (IF state.needs_introduction THEN INTRODUCTION_BONUS ELSE 0)
    + (IF UrgPositive(state.urgency) THEN URGENCY_BONUS ELSE 0)
    + (IF _difficulty_map(unit) = difficulty THEN DIFFICULTY_MATCH_BONUS
       ELSE IF DifficultyRank(_difficulty_map(unit)) > DifficultyRank(difficulty)
       THEN DIFFICULTY_PENALTY
       ELSE 0)

\* Deck._score_card(card, urgency_states, current_time)
_score_card(card, urgency_states, current_time) ==
    LET uses == UsesGet(card)
    IN  SumSeq([i \in 1..Len(uses) |->
                    (IF uses[i].is_reported THEN -REPORT_PENALTY ELSE 0)
                    - UsagePenalty(current_time - uses[i].time)], 1)
        + SumOver(CardUnits(card),
                  [unit \in CardUnits(card) |->
                      UnitScore(urgency_states[unit], unit)])

(* ------------------------- rating histories ---------------------------- *)

\* the longest history explored
MaxHist == 3

Scores == 0..3

\* the modes rated in the explored histories
HistModes == {"listen", "speak"}

\* seconds between two consecutive ratings of a unit: inside the block
\* interval, exactly at its end, and long after it
Gaps == {1, BLOCK_INTERVAL, ALL_GREEN_MINIMUM}

\* the time of the first rating
StartTime == 0

LastTime(h) == IF Len(h) = 0 THEN StartTime ELSE h[Len(h)].time

\* seconds between the last rating and the time urgencies are computed at
NowOffsets ==
    {0, 1, BLOCK_INTERVAL - 1, BLOCK_INTERVAL, ALL_GREEN_MINIMUM,
     2 * ALL_GREEN_MINIMUM}

Nows(h) == {LastTime(h) + d : d \in NowOffsets}

\* the configured mode lists: the non-empty lists of distinct modes
ModeLists ==
    {ms \in UNION {[1..k -> ModeSet] : k \in 1..Len(Mode)} :
        \A i, j \in DOMAIN ms : i # j => ms[i] # ms[j]}

(* ------------------------- deck.py: the public operations -------------- *)

\* the most ratings held by the deck
MaxRatings == 2

\* how often the clock advances
MaxTicks == 2

\* class CardUsage
CardUsage(t, reported) == [time |-> t, is_reported |-> reported]

TotalRatings == SumOver(DOMAIN ratings, [u \in DOMAIN ratings |-> Len(ratings[u])])

\* the outcome of the last call: nothing yet, a returned draw, or a raised error
NoResult == [op |-> "none"]

Drawn(task, card, gap) ==
    [op |-> "draw", status |-> "ok", step |-> task.step, mode |-> task.mode,
     unit |-> task.unit, card |-> card, gap |-> gap]

Raised(msg, gap) == [op |-> "draw", status |-> "ValueError", msg |-> msg, gap |-> gap]

\* a slip: the new rating replaces the list of the unit
RatedReplacing(unit, mode, score, t) ==
    [u \in DOMAIN ratings \cup {unit} |->
        IF u = unit THEN <<Rating(mode, t, score)>> ELSE ratings[u]]

\* self._ratings after Deck.rate(unit, mode, score) at time t
Rated(unit, mode, score, t) ==
    [u \in DOMAIN ratings \cup {unit} |->
        IF u = unit
        THEN (IF unit \in DOMAIN ratings THEN ratings[unit] ELSE <<>>)
                 \o <<Rating(mode, t, score)>>
        ELSE ratings[u]]

\* Deck.__init__ on one of the card stores
InitDeck ==
    /\ ratings = <<>>
    /\ card_id_uses = <<>>
    /\ difficulty = "A1"
    /\ modes = Mode
    /\ card_index \in Stores
    /\ now = StartTime
    /\ ticks = 0
    /\ result = NoResult

\* seconds that pass between two calls on the deck: the block interval, and
\* the time after which a unit known at the first attempt is due
DeckGaps == {BLOCK_INTERVAL, ALL_GREEN_MINIMUM}

\* time passes between two calls
Tick(gap) ==
    /\ ticks < MaxTicks
    /\ now' = now + gap
    /\ ticks' = ticks + 1
    /\ UNCHANGED <<buildVars, history, ratings, card_id_uses, difficulty, modes,
                   card_index, result>>

\* the units a review rates: those tagged on an indexed card
RatedUnits == UNION {CardUnits(c) : c \in card_index.ids}

\* the scores the review page hands to Deck.rate
UiScores == {0, 1, 3}

\* Deck.rate(unit, mode, score)
rate(unit, mode, score) ==
    /\ TotalRatings < MaxRatings
    /\ ratings' = Rated(unit, mode, score, now)
    /\ result' = NoResult
    /\ UNCHANGED <<buildVars, history, card_id_uses, difficulty, modes, card_index, now,
                   ticks>>

\* the mode lists handed to set_modes
ModeChoices == {<<"speak", "listen">>}

\* Deck.set_modes(modes)
set_modes(ms) ==
    /\ modes' = ms
    /\ result' = NoResult
    /\ UNCHANGED <<buildVars, history, ratings, card_id_uses, difficulty, card_index, now,
                   ticks>>

\* the card usages logged in all
TotalUses == SumOver(DOMAIN card_id_uses,
                     [c \in DOMAIN card_id_uses |-> Len(card_id_uses[c])])

\* the most card usages logged
MaxUses == 2

\* Deck.log_usage(card_id, is_reported)
log_usage(card_id, is_reported) ==
    /\ TotalUses < MaxUses
    /\ card_id_uses' =
           [c \in DOMAIN card_id_uses \cup {card_id} |->
               IF c = card_id
               THEN UsesGet(card_id) \o <<CardUsage(now, is_reported)>>
               ELSE card_id_uses[c]]
    /\ result' = NoResult
    /\ UNCHANGED <<buildVars, history, ratings, difficulty, modes, card_index, now, ticks>>

\* Deck.set_difficulty(difficulty)
set_difficulty(d) ==
    /\ difficulty' = d
    /\ result' = NoResult
    /\ UNCHANGED <<buildVars, history, ratings, card_id_uses, modes, card_index, now,
                   ticks>>

\* a slip: the first card of the shuffled list is returned
BestCardsAny(cs, urgency_states, current_time) == {cs[i] : i \in 1..Len(cs)}

\* a slip: min() in place of max()
BestCardsLowest(cs, urgency_states, current_time) ==
    {cs[i] : i \in {i \in 1..Len(cs) :
        \A j \in 1..Len(cs) :
            _score_card(cs[i], urgency_states, current_time)
                <= _score_card(cs[j], urgency_states, current_time)}}

\* the cards of the list cs with the highest score: max() after the shuffle
\* returns any one of them
BestCards(cs, urgency_states, current_time) ==
    {cs[i] : i \in {i \in 1..Len(cs) :
        \A j \in 1..Len(cs) :
            _score_card(cs[j], urgency_states, current_time)
                <= _score_card(cs[i], urgency_states, current_time)}}

\* the cards of the first unit of the vocabulary that has cards, <<>> if none has
FallbackCards ==
    LET withCards == {i \in 1..Len(_full_vocabulary) :
                         cards(_full_vocabulary[i]) # <<>>}
    IN  IF withCards = {} THEN <<>>
        ELSE cards(_full_vocabulary[
                 CHOOSE i \in withCards : \A j \in withCards : i <= j])

\* a slip: the forced rating of the data gap is recorded as a fail
DrawTaskForcedFail(urgency_states, task) ==
    IF task = None
    THEN /\ result' = Raised("No units found", FALSE)
         /\ UNCHANGED ratings
    ELSE IF cards(task[1].unit) # <<>>
    THEN /\ \E card \in BestCards(cards(task[1].unit), urgency_states, now) :
                result' = Drawn(task[1], card, FALSE)
         /\ UNCHANGED ratings
    ELSE /\ TotalRatings < MaxRatings
         /\ ratings' = Rated(task[1].unit, task[1].mode, 1, now)
         /\ IF FallbackCards = <<>>
            THEN result' = Raised("max() arg is an empty sequence", TRUE)
            ELSE \E card \in BestCards(FallbackCards, urgency_states, now) :
                     result' = Drawn(task[1], card, TRUE)

\* Deck.draw(), given the urgency states and the task chosen from them
DrawTask(urgency_states, task) ==
    IF task = None
    THEN /\ result' = Raised("No units found", FALSE)
         /\ UNCHANGED ratings
    ELSE IF cards(task[1].unit) # <<>>
    THEN /\ \E card \in BestCards(cards(task[1].unit), urgency_states, now) :
                result' = Drawn(task[1], card, FALSE)
         /\ UNCHANGED ratings
    ELSE /\ TotalRatings < MaxRatings
         /\ ratings' = Rated(task[1].unit, task[1].mode, 0, now)
         /\ IF FallbackCards = <<>>
            THEN result' = Raised("max() arg is an empty sequence", TRUE)
            ELSE \E card \in BestCards(FallbackCards, urgency_states, now) :
                     result' = Drawn(task[1], card, TRUE)

\* Deck.draw()
draw ==
    \E urgency_states \in {_compute_urgencies(now)} :
        \E task \in {_choose_task(urgency_states)} :
            DrawTask(urgency_states, task)

Draw ==
    /\ draw
    /\ UNCHANGED <<buildVars, history, card_id_uses, difficulty, modes, card_index, now,
                   ticks>>

(* ------------------------- deck.py: stats, save and load --------------- *)

\* Language.code_name of the entries of _ALL_LANGUAGES
LANGUAGES ==
    {"english", "german", "french", "russian", "polish", "japanese",
     "simp_chinese", "trad_chinese"}

\* self._target_language.code_name and self._native_language.code_name
_target_language == "japanese"

_native_language == "english"

\* a JSON object is the list of its (name, value) members
Has(obj, key) == \E i \in 1..Len(obj) : obj[i][1] = key

\* data[key]: the value of the last member of that name
Get(obj, key) ==
    obj[CHOOSE i \in 1..Len(obj) :
            /\ obj[i][1] = key
            /\ \A j \in (i + 1)..Len(obj) : obj[j][1] # key][2]

\* the names of the members of a JSON object
Keys(obj) == {obj[i][1] : i \in 1..Len(obj)}

\* dict.items() of a dict of lists, each list entry written by dump
Items(f, dump) ==
    LET keys == SortedSeq(DOMAIN f)
    IN  [i \in 1..Len(keys) |->
            <<keys[i], [j \in 1..Len(f[keys[i]]) |-> dump[f[keys[i]][j]]]>>]

\* Rating.model_dump()
RatingDump(r) == <<<<"mode", r.mode>>, <<"time", r.time>>, <<"score", r.score>>>>

\* a slip: the report flag is not written
UsageDumpNoFlag(u) == <<<<"time", u.time>>>>

\* CardUsage.model_dump()
UsageDump(u) == <<<<"time", u.time>>, <<"is_reported", u.is_reported>>>>

\* the document Deck.save hands to json.dump
SaveDoc ==
    <<<<"target_language", _target_language>>,
      <<"native_language", _native_language>>,
      <<"ratings",
        Items(ratings,
              [r \in UNION {{ratings[u][i] : i \in 1..Len(ratings[u])} :
                               u \in DOMAIN ratings} |-> RatingDump(r)])>>,
      <<"card_id_uses",
        Items(card_id_uses,
              [u \in UNION {{card_id_uses[c][i] : i \in 1..Len(card_id_uses[c])} :
                               c \in DOMAIN card_id_uses} |-> UsageDump(u)])>>,
      <<"difficulty", difficulty>>,
      <<"modes", [i \in 1..Len(modes) |-> modes[i]]>>>>

\* Rating.model_validate(r) passes
RatingValid(obj) ==
    /\ Has(obj, "mode") /\ Has(obj, "time") /\ Has(obj, "score")
    /\ Get(obj, "mode") \in ModeSet

\* Rating.model_validate(r)
RatingValidate(obj) ==
    Rating(Get(obj, "mode"), Get(obj, "time"), Get(obj, "score"))

\* CardUsage.model_validate(u) passes
UsageValid(obj) == Has(obj, "time")

\* CardUsage.model_validate(u): is_reported has the default False
UsageValidate(obj) ==
    CardUsage(Get(obj, "time"),
              IF Has(obj, "is_reported") THEN Get(obj, "is_reported") ELSE FALSE)

DifficultySet == {Difficulty[i] : i \in 1..Len(Difficulty)}

LoadError(kind) == [ok |-> FALSE, error |-> kind]

\* Deck.load, given the document json.load returns: the fields of the deck it
\* yields, or the error it raises
Load(data) ==
    IF ~Has(data, "target_language") THEN LoadError("KeyError")
    ELSE IF Get(data, "target_language") \notin LANGUAGES THEN LoadError("KeyError")
    ELSE IF ~Has(data, "native_language") THEN LoadError("KeyError")
    ELSE IF Get(data, "native_language") \notin LANGUAGES THEN LoadError("KeyError")
    ELSE IF ~Has(data, "ratings") THEN LoadError("KeyError")
    ELSE IF \E i \in 1..Len(Get(data, "ratings")) :
                \E j \in 1..Len(Get(data, "ratings")[i][2]) :
                    ~RatingValid(Get(data, "ratings")[i][2][j])
    THEN LoadError("ValidationError")
    ELSE IF ~Has(data, "card_id_uses") THEN LoadError("KeyError")
    ELSE IF \E i \in 1..Len(Get(data, "card_id_uses")) :
                \E j \in 1..Len(Get(data, "card_id_uses")[i][2]) :
                    ~UsageValid(Get(data, "card_id_uses")[i][2][j])
    THEN LoadError("ValidationError")
    ELSE IF ~Has(data, "difficulty") THEN LoadError("KeyError")
    ELSE IF Get(data, "difficulty") \notin DifficultySet THEN LoadError("ValueError")
    ELSE IF ~Has(data, "modes") THEN LoadError("KeyError")
    ELSE IF \E i \in 1..Len(Get(data, "modes")) :
                Get(data, "modes")[i] \notin ModeSet
    THEN LoadError("ValueError")
    ELSE LET rs == Get(data, "ratings")
             us == Get(data, "card_id_uses")
         IN  [ok |-> TRUE,
              ratings |-> [k \in Keys(rs) |->
                              [j \in 1..Len(Get(rs, k)) |->
                                  RatingValidate(Get(rs, k)[j])]],
              card_id_uses |-> [k \in Keys(us) |->
                                   [j \in 1..Len(Get(us, k)) |->
                                       UsageValidate(Get(us, k)[j])]],
              difficulty |-> Get(data, "difficulty"),
              modes |-> Get(data, "modes")]

\* the outcome of save: the document written to the file
Saved(doc) == [op |-> "save", file |-> doc]

\* Deck.save(filename)
save ==
    /\ result' = Saved(SaveDoc)
    /\ UNCHANGED <<buildVars, history, ratings, card_id_uses, difficulty, modes, card_index,
                   now, ticks>>

\* Deck.load(filename) of the file just saved, on the same card store
load ==
    /\ result.op = "save"
    /\ \E deck \in {Load(result.file)} :
           IF deck.ok
           THEN /\ ratings' = deck.ratings
                /\ card_id_uses' = deck.card_id_uses
                /\ difficulty' = deck.difficulty
                /\ modes' = deck.modes
                /\ result' = [op |-> "load", status |-> "ok"]
           ELSE /\ result' = [op |-> "load", status |-> deck.error]
                /\ UNCHANGED <<ratings, card_id_uses, difficulty, modes>>
    /\ UNCHANGED <<buildVars, history, card_index, now, ticks>>

\* the object without its members of that name
DropKey(obj, key) ==
    LET keep == {i \in 1..Len(obj) : obj[i][1] # key}
        RECURSIVE pick(_, _)
        pick(i, n) == IF i \in keep THEN (IF n = 1 THEN i ELSE pick(i + 1, n - 1))
                      ELSE pick(i + 1, n)
    IN  [n \in 1..Cardinality(keep) |-> obj[pick(1, n)]]

\* the object with another value under that name
ReplaceKey(obj, key, val) ==
    [i \in 1..Len(obj) |-> IF obj[i][1] = key THEN <<key, val>> ELSE obj[i]]

\* the object of lists of records with one field taken out of every record
DropField(obj, field) ==
    [i \in 1..Len(obj) |->
        <<obj[i][1], [j \in 1..Len(obj[i][2]) |-> DropKey(obj[i][2][j], field)]>>]

\* the names json.load must find in the file
RequiredKeys ==
    {"target_language", "native_language", "ratings", "card_id_uses",
     "difficulty", "modes"}

\* the files a saved file can be turned into outside the program: a member is
\* lost, a token is none of the enumeration, a record loses a field
Edits(doc) ==
    {DropKey(doc, k) : k \in RequiredKeys}
    \cup {ReplaceKey(doc, "difficulty", "D9"),
          ReplaceKey(doc, "modes", <<"listen", "sing">>)}
    \cup {ReplaceKey(doc, "ratings", DropField(Get(doc, "ratings"), f)) :
              f \in {"mode", "time", "score"}}
    \cup {ReplaceKey(doc, "card_id_uses",
                     DropField(Get(doc, "card_id_uses"), f)) :
              f \in {"time", "is_reported"}}

\* the saved file is changed outside the program before it is loaded
EditFile ==
    /\ result = Saved(SaveDoc)
    /\ \E doc \in Edits(result.file) : result' = Saved(doc)
    /\ UNCHANGED <<buildVars, history, ratings, card_id_uses, difficulty, modes, card_index,
                   now, ticks>>

\* a slip: >= in place of > in the test of waiting
StatsOfFromZero(urgency_states) ==
    [op |-> "stats",
     waiting |-> Cardinality({u \in Units :
                     /\ urgency_states[u].is_target
                     /\ ~UrgLess(urgency_states[u].urgency, UrgZero)}),
     satisfied |-> Cardinality({u \in Units :
                       /\ urgency_states[u].is_touched
                       /\ ~UrgPositive(urgency_states[u].urgency)})]

\* the dictionary Deck.stats returns from the urgency states
StatsOf(urgency_states) ==
    [op |-> "stats",
     waiting |-> Cardinality({u \in Units :
                     /\ urgency_states[u].is_target
                     /\ UrgPositive(urgency_states[u].urgency)}),
     satisfied |-> Cardinality({u \in Units :
                       /\ urgency_states[u].is_touched
                       /\ ~UrgPositive(urgency_states[u].urgency)})]

\* Deck.stats()
stats ==
    /\ result' = StatsOf(_compute_urgencies(now))
    /\ UNCHANGED <<buildVars, history, ratings, card_id_uses, difficulty, modes, card_index,
                   now, ticks>>

\* no builder object is constructed
NoBuilder == [op |-> "none"]

InitApp ==
    /\ sentence_producer = NoBuilder
    /\ flash_card = NoBuilder
    /\ web_app = NoBuilder
    /\ deck_builder = NoBuilder

InitBuild == tags_builder = NoBuilder /\ unit_producer = NoBuilder /\ InitApp

Init == history = <<>> /\ InitDeck /\ InitBuild

Next ==
    \/ \E gap \in DeckGaps : Tick(gap)
    \/ \E unit \in RatedUnits, mode \in HistModes, score \in UiScores :
           rate(unit, mode, score)
    \/ \E ms \in ModeChoices : set_modes(ms)
    \/ Draw

Spec == Init /\ [][Next]_vars

\* the bookkeeping of a deck: usages are logged and the target difficulty is
\* set while time passes
NextD ==
    \/ \E gap \in DeckGaps : Tick(gap)
    \/ \E c \in card_index.ids, r \in BOOLEAN : log_usage(c, r)
    \/ \E i \in 1..Len(Difficulty) : set_difficulty(Difficulty[i])

SpecD == Init /\ [][NextD]_vars

\* the difficulties handed to set_difficulty in the whole life of a deck
DifficultyChoices == {"A2"}

\* the most ratings and card usages a caller records in the whole life of a
\* deck
MaxRecords == 2

\* the whole life of a deck on a card store with a card whose file is gone
\* and two cards of the same unit: every public operation of Deck, a block
\* interval apart or closer
InitP ==
    /\ history = <<>>
    /\ ratings = <<>>
    /\ card_id_uses = <<>>
    /\ difficulty = "A1"
    /\ modes = Mode
    /\ card_index = Store({1, 3, 5}, {3, 5})
    /\ now = StartTime
    /\ ticks = 0
    /\ result = NoResult
    /\ InitBuild

NextP ==
    \/ Tick(BLOCK_INTERVAL)
    \/ /\ TotalRatings + TotalUses < MaxRecords
       /\ \E unit \in RatedUnits, mode \in HistModes, score \in UiScores :
              rate(unit, mode, score)
    \/ \E ms \in ModeChoices : set_modes(ms)
    \/ Draw
    \/ /\ TotalRatings + TotalUses < MaxRecords
       /\ \E c \in card_index.ids, r \in BOOLEAN : log_usage(c, r)
    \/ \E d \in DifficultyChoices : set_difficulty(d)
    \/ stats
    \/ save
    \/ load

SpecP == InitP /\ [][NextP]_vars

\* a unit name that is not in the vocabulary, and a card id that is not in
\* the card store
ForeignUnit == VocabLen + 1

ForeignCard == Cardinality(CardIds) + 1

\* the units and card ids a caller of the Deck class can name
CallerUnits == {1, ForeignUnit}

CallerCards == {3, ForeignCard}

\* the Deck class under a caller who may name any unit and any card, and a
\* file that may be changed between save and load
NextK ==
    \/ Tick(BLOCK_INTERVAL)
    \/ /\ TotalRatings + TotalUses < MaxRecords
       /\ \E unit \in CallerUnits, mode \in HistModes, score \in UiScores :
              rate(unit, mode, score)
    \/ /\ TotalRatings + TotalUses < MaxRecords
       /\ \E c \in CallerCards, r \in BOOLEAN : log_usage(c, r)
    \/ save
    \/ EditFile
    \/ load

SpecK == InitP /\ [][NextK]_vars

(* ------------------------- builder.py: UnitTagsBuilder ----------------- *)

\* the characters of the sentences and words explored
Alphabet == {"a", "b"}

\* the longest sentence and the longest word explored
MaxSentence == 5

MaxWord == 3

\* the strings of up to n characters, as lists of characters
Strings(n) == UNION {[1..k -> Alphabet] : k \in 0..n}

Words == Strings(MaxWord) \ {<<>>}

\* word occurs in sentence at position p
OccursAt(word, sentence, p) ==
    /\ p >= 1
    /\ p + Len(word) - 1 <= Len(sentence)
    /\ \A i \in 1..Len(word) : sentence[p + i - 1] = word[i]

\* word in sentence
Contains(sentence, word) == \E p \in 1..Len(sentence) : OccursAt(word, sentence, p)

\* sentence.replace(word, "", 1), for a word that occurs in the sentence
RemoveFirst(sentence, word) ==
    LET p == CHOOSE q \in 1..Len(sentence) :
                 /\ OccursAt(word, sentence, q)
                 /\ \A r \in 1..(q - 1) : ~OccursAt(word, sentence, r)
    IN  SubSeq(sentence, 1, p - 1)
            \o SubSeq(sentence, p + Len(word), Len(sentence))

\* list.sort(key=lambda x: len(x[field]), reverse=True): the element x is put
\* behind the elements of the sorted list whose key is not smaller
InsertDesc(sorted, x, field) ==
    LET smaller == {i \in 1..Len(sorted) : Len(sorted[i][field]) < Len(x[field])}
        p == IF smaller = {} THEN Len(sorted) + 1
             ELSE CHOOSE i \in smaller : \A j \in smaller : i <= j
    IN  SubSeq(sorted, 1, p - 1) \o <<x>> \o SubSeq(sorted, p, Len(sorted))

RECURSIVE SortDescFrom(_, _, _, _)
SortDescFrom(tags, i, sorted, field) ==
    IF i > Len(tags) THEN sorted
    ELSE CHOOSE r \in {SortDescFrom(tags, i + 1, s, field) :
                           s \in {InsertDesc(sorted, tags[i], field)}} : TRUE

\* the stable sort of a list of (word, unit) tags by the length of the word
\* (field 1) or of the unit (field 2), longest first
SortDesc(tags, field) == SortDescFrom(tags, 1, <<>>, field)

\* filtered[word] = unit on a dict kept as the list of its items
DictSet(items, word, unit) ==
    IF \E i \in 1..Len(items) : items[i][1] = word
    THEN [i \in 1..Len(items) |->
             IF items[i][1] = word THEN <<word, unit>> ELSE items[i]]
    ELSE Append(items, <<word, unit>>)

\* the loop of add_filtered over all_tags from index i on
RECURSIVE FilterLoop(_, _, _, _, _, _)
FilterLoop(all_tags, i, sentence, used_units, filtered, vocabulary) ==
    IF i > Len(all_tags) THEN filtered
    ELSE LET word == all_tags[i][1]
             unit == all_tags[i][2]
         IN  IF \/ ~Contains(sentence, word)
                \/ unit \notin vocabulary
                \/ unit \in used_units
             THEN FilterLoop(all_tags, i + 1, sentence, used_units, filtered,
                             vocabulary)
             ELSE CHOOSE r \in
                      {FilterLoop(all_tags, i + 1, rest[1], used_units \cup {unit},
                                  rest[2], vocabulary) :
                           rest \in {<<RemoveFirst(sentence, word),
                                       DictSet(filtered, word, unit)>>}} : TRUE

\* self.unit_tags after add_filtered(new_tag_list, vocabulary)
Filtered(new_tag_list, vocabulary) ==
    CHOOSE r \in
        {FilterLoop(all_tags, 1, tags_builder.sentence, {}, <<>>, vocabulary) :
             all_tags \in
                 {SortDesc(by_unit, 1) :
                      by_unit \in {SortDesc(new_tag_list \o tags_builder.unit_tags,
                                            2)}}} : TRUE

\* UnitTagsBuilder.DONE_AFTER
DONE_AFTER == 1

\* UnitTagsBuilder(sentence, hint)
UnitTagsBuilder(sentence) ==
    [op |-> "tags", sentence |-> sentence, unit_tags |-> <<>>,
     _no_progress_counter |-> 0]

\* UnitTagsBuilder.done()
TagsDone == tags_builder._no_progress_counter >= DONE_AFTER

\* a slip: the counter goes up only when the tags have become fewer
add_filtered_fewer(new_tag_list, vocabulary) ==
    /\ tags_builder.op = "tags"
    /\ ~TagsDone
    /\ \E filtered \in {Filtered(new_tag_list, vocabulary)} :
           tags_builder' =
               [tags_builder EXCEPT
                   !.unit_tags = filtered,
                   !._no_progress_counter =
                       IF Len(tags_builder.unit_tags) > Len(filtered)
                       THEN @ + 1 ELSE @]
    /\ UNCHANGED <<history, deckVars, unit_producer, appVars>>

\* UnitTagsBuilder.add_filtered(new_tag_list, vocabulary), called as the card
\* pipeline does while the builder is not done
add_filtered(new_tag_list, vocabulary) ==
    /\ tags_builder.op = "tags"
    /\ ~TagsDone
    /\ \E filtered \in {Filtered(new_tag_list, vocabulary)} :
           tags_builder' =
               [tags_builder EXCEPT
                   !.unit_tags = filtered,
                   !._no_progress_counter =
                       IF Len(tags_builder.unit_tags) >= Len(filtered)
                       THEN @ + 1 ELSE @]
    /\ UNCHANGED <<history, deckVars, unit_producer, appVars>>

\* the vocabulary handed to add_filtered: every word but one
TagVocabulary == Words \ {<<"b", "b">>}

\* the tag lists a call offers: one tag, of a word for itself or for its
\* first character as the unit
NewTagLists ==
    {<<<<w, w>>>> : w \in Words} \cup {<<<<w, <<w[1]>>>>>> : w \in Words}

InitT ==
    /\ history = <<>>
    /\ InitDeck
    /\ card_index = Store({}, {})
    /\ tags_builder \in {UnitTagsBuilder(s) : s \in Strings(MaxSentence)}
    /\ unit_producer = NoBuilder
    /\ InitApp

NextT == \E new_tag_list \in NewTagLists : add_filtered(new_tag_list, TagVocabulary)

SpecT == InitT /\ [][NextT]_vars

\* the loop of _complete_card: the tagger answers every call in the end
SpecTL == SpecT /\ WF_vars(NextT)

(* ------------------------- builder.py: UnitProducer -------------------- *)

\* UnitProducer.DRAW_BUFFER
DRAW_BUFFER == 4

DifficultyLess(a, b) == DifficultyRank(a) < DifficultyRank(b)

\* Language.vocabulary(difficulty) of the language a producer is built on:
\* two units of the first difficulty, one of the second, none of the others
ProducerVocabulary(d) ==
    CASE d = "A1" -> <<1, 2>>
      [] d = "A2" -> <<3>>
      [] OTHER -> <<>>

ProducerUnits ==
    UNION {{ProducerVocabulary(d)[i] : i \in 1..Len(ProducerVocabulary(d))} :
              d \in DifficultySet}

\* the elements of the list that are in the set, in the order of the list
RECURSIVE FilterSeq(_, _)
FilterSeq(seq, keep) ==
    IF seq = <<>> THEN <<>>
    ELSE (IF Head(seq) \in keep THEN <<Head(seq)>> ELSE <<>>)
             \o FilterSeq(Tail(seq), keep)

SeqSet(seq) == {seq[i] : i \in 1..Len(seq)}

\* UnitProducer(language, cards_per_unit); round_fitting and round_drawn
\* record, for the claims, the fitting counts at the last refill of the pools
\* and the units drawn since
UnitProducer(cards_per_unit) ==
    [op |-> "producer",
     _cards_per_unit |-> cards_per_unit,
     _card_count |-> [u \in ProducerUnits |-> 0],
     _fitting_count |-> [u \in ProducerUnits |-> 0],
     _units_remaining |-> [d \in DifficultySet |-> ProducerVocabulary(d)],
     _unit_pools |-> <<>>,
     _done |-> FALSE,
     round_fitting |-> [u \in ProducerUnits |-> 0],
     round_drawn |-> {},
     out |-> [call |-> "init"]]

\* a slip: a unit is put in a pool only with fewer cards than the average
RefilledBelowAverage(p) ==
    LET remaining == [d \in DifficultySet |->
                         FilterSeq(p._units_remaining[d],
                                   {u \in ProducerUnits :
                                       p._fitting_count[u] < p._cards_per_unit})]
        left == UNION {SeqSet(remaining[d]) : d \in DifficultySet}
        pool_size == Cardinality(left)
        total == SumOver(left, [u \in left |-> p._card_count[u]])
    IN  IF pool_size = 0
        THEN [p EXCEPT !._units_remaining = remaining, !._done = TRUE]
        ELSE [p EXCEPT
                 !._units_remaining = remaining,
                 !._done = FALSE,
                 !._unit_pools =
                     [d \in DifficultySet |->
                         FilterSeq(remaining[d],
                                   {u \in ProducerUnits :
                                       p._card_count[u] * pool_size < total})],
                 !.round_fitting = p._fitting_count,
                 !.round_drawn = {}]

\* the producer after UnitProducer._refill()
Refilled(p) ==
    LET remaining == [d \in DifficultySet |->
                         FilterSeq(p._units_remaining[d],
                                   {u \in ProducerUnits :
                                       p._fitting_count[u] < p._cards_per_unit})]
        left == UNION {SeqSet(remaining[d]) : d \in DifficultySet}
        pool_size == Cardinality(left)
        total == SumOver(left, [u \in left |-> p._card_count[u]])
    IN  IF pool_size = 0
        THEN [p EXCEPT !._units_remaining = remaining, !._done = TRUE]
        ELSE [p EXCEPT
                 !._units_remaining = remaining,
                 !._done = FALSE,
                 !._unit_pools =
                     [d \in DifficultySet |->
                         FilterSeq(remaining[d],
                                   {u \in ProducerUnits :
                                       p._card_count[u] * pool_size
                                           < total + DRAW_BUFFER * pool_size})],
                 !.round_fitting = p._fitting_count,
                 !.round_drawn = {}]

\* if not self._unit_pools: self._refill()
LazyRefilled(p) == IF DOMAIN p._unit_pools = {} THEN Refilled(p) ELSE p

\* the difficulties whose pool holds a unit
FilledPools(p) == {d \in DOMAIN p._unit_pools : p._unit_pools[d] # <<>>}

Min(a, b) == IF a <= b THEN a ELSE b

\* a slip: the pool is not shortened by the units handed out
UnitsDrawnKeepingPool(p, count) ==
    LET d == CHOOSE d \in FilledPools(p) :
                 \A e \in FilledPools(p) : ~DifficultyLess(e, d)
        units == SubSeq(p._unit_pools[d], 1, Min(count, Len(p._unit_pools[d])))
    IN  [p EXCEPT !.out = [call |-> "draw", units |-> units, difficulty |-> <<d>>],
                  !.round_drawn = @ \cup SeqSet(units)]

\* the producer after the loop of draw over the difficulties, for a producer
\* with a filled pool
UnitsDrawn(p, count) ==
    LET d == CHOOSE d \in FilledPools(p) :
                 \A e \in FilledPools(p) : ~DifficultyLess(e, d)
        pool == p._unit_pools[d]
        units == SubSeq(pool, 1, Min(count, Len(pool)))
    IN  [p EXCEPT !._unit_pools[d] = SubSeq(pool, Min(count, Len(pool)) + 1, Len(pool)),
                  !.out = [call |-> "draw", units |-> units, difficulty |-> <<d>>],
                  !.round_drawn = @ \cup SeqSet(units)]

\* the producer after UnitProducer.draw(count), with what the call returned
\* or raised in out
AfterDraw(producer, count) ==
    LET p == LazyRefilled(producer)
        q == IF FilledPools(p) = {}
             THEN [p EXCEPT !.out = [call |-> "draw", units |-> <<>>,
                                     difficulty |-> <<>>]]
             ELSE UnitsDrawn(p, count)
    IN  IF DOMAIN p._unit_pools = {}
        THEN [p EXCEPT !.out = [call |-> "draw", error |-> "KeyError"]]
        ELSE IF FilledPools(q) = {}
             THEN [Refilled(q) EXCEPT !.round_drawn =
                      IF Refilled(q)._done THEN q.round_drawn ELSE {}]
             ELSE q

\* UnitProducer.draw(count)
producer_draw(count) ==
    /\ unit_producer.op = "producer"
    /\ \E after \in {AfterDraw(unit_producer, count)} : unit_producer' = after
    /\ UNCHANGED <<history, deckVars, tags_builder, appVars>>

\* the most cards registered with a producer
MaxRegister == 6

RegisteredCards == SumOver(ProducerUnits, unit_producer._card_count)

\* UnitProducer.register(unit, is_fitting)
register(unit, is_fitting) ==
    /\ unit_producer.op = "producer"
    /\ RegisteredCards < MaxRegister
    /\ unit_producer' =
           [unit_producer EXCEPT
               !._card_count[unit] = @ + 1,
               !._fitting_count[unit] = IF is_fitting THEN @ + 1 ELSE @,
               !.out = [call |-> "register"]]
    /\ UNCHANGED <<history, deckVars, tags_builder, appVars>>

\* UnitProducer.done()
producer_done ==
    /\ unit_producer.op = "producer"
    /\ \E p \in {LazyRefilled(unit_producer)} :
           unit_producer' = [p EXCEPT !.out = [call |-> "done", value |-> p._done]]
    /\ UNCHANGED <<history, deckVars, tags_builder, appVars>>

\* the numbers of units asked of draw, and the cards wanted per unit
DrawCounts == {1, 2}

CardsPerUnit == {1, 2}

InitR ==
    /\ history = <<>>
    /\ InitDeck
    /\ card_index = Store({}, {})
    /\ tags_builder = NoBuilder
    /\ unit_producer \in {UnitProducer(n) : n \in CardsPerUnit}
    /\ InitApp

NextR ==
    \/ \E count \in DrawCounts : producer_draw(count)
    \/ \E unit \in ProducerUnits, is_fitting \in BOOLEAN : register(unit, is_fitting)
    \/ producer_done

SpecR == InitR /\ [][NextR]_vars

(* ------------------------- builder.py: SentenceProducer ---------------- *)

\* Language.grammar(difficulty) of the language a producer is built on: two
\* concepts of the first difficulty and one of the second
ProducerGrammar(d) ==
    CASE d = "A1" -> <<"g1", "g2">>
      [] d = "A2" -> <<"g3">>
      [] OTHER -> <<>>

\* the loop of _sample_grammar: the grammar of the difficulties from position
\* pos up to the position last of the enum
RECURSIVE GrammarLoop(_, _)
GrammarLoop(pos, last) ==
    IF pos > last THEN <<>>
    ELSE ProducerGrammar(Difficulty[pos]) \o GrammarLoop(pos + 1, last)

\* the pool the loop builds for the difficulty draw returned: <<d>>, or <<>>
\* for None, which no member of the enum equals, so that the loop never breaks
GrammarUpTo(chosen_difficulty) ==
    GrammarLoop(1, IF chosen_difficulty = <<>> THEN Len(Difficulty)
                   ELSE DifficultyRank(chosen_difficulty[1]))

\* the orders random.shuffle can leave a list in
Shuffles(seq) ==
    {[i \in 1..Len(seq) |-> seq[f[i]]] : f \in Permutations(1..Len(seq))}

\* SentenceProducer._sample_grammar(difficulty): the outcomes, each the
\* grammar returned with the pools left, or the error raised
_sample_grammar(grammar_pools, chosen_difficulty) ==
    LET stored == IF chosen_difficulty \in DOMAIN grammar_pools
                  THEN grammar_pools[chosen_difficulty] ELSE <<>>
        filled == IF stored # <<>> THEN {stored}
                  ELSE Shuffles(GrammarUpTo(chosen_difficulty))
    IN  {IF pool = <<>> THEN [error |-> "IndexError"]
         ELSE [grammar |-> pool[Len(pool)],
               pools |-> [k \in DOMAIN grammar_pools \cup {chosen_difficulty} |->
                             IF k = chosen_difficulty
                             THEN SubSeq(pool, 1, Len(pool) - 1)
                             ELSE grammar_pools[k]]] :
         pool \in filled}

\* SentenceProducer(language, cards_per_unit, cards_per_call); its
\* _unit_producer is the variable unit_producer
SentenceProducer(cards_per_call) ==
    [op |-> "sentences",
     _cards_per_call |-> cards_per_call,
     _grammar_pools |-> <<>>,
     out |-> [call |-> "init"]]

\* the units of the producer that still lack fitting cards
Pending(p) ==
    {u \in UNION {SeqSet(p._units_remaining[d]) : d \in DifficultySet} :
        p._fitting_count[u] < p._cards_per_unit}

\* SentenceProducer.create(): the units and the grammar handed to
\* llm.create_sentences; pending records, for the claims, how many units
\* lacked fitting cards when the call was made
create ==
    /\ sentence_producer.op = "sentences"
    /\ \E after \in {AfterDraw(unit_producer, sentence_producer._cards_per_call)},
          pending \in {Cardinality(Pending(unit_producer))} :
           /\ unit_producer' = after
           /\ IF "error" \in DOMAIN after.out
              THEN sentence_producer' =
                       [sentence_producer EXCEPT
                           !.out = [call |-> "create", error |-> after.out.error]]
              ELSE \E sampled \in _sample_grammar(sentence_producer._grammar_pools,
                                                  after.out.difficulty) :
                       sentence_producer' =
                           IF "error" \in DOMAIN sampled
                           THEN [sentence_producer EXCEPT
                                    !.out = [call |-> "create",
                                             error |-> sampled.error]]
                           ELSE [sentence_producer EXCEPT
                                    !._grammar_pools = sampled.pools,
                                    !.out = [call |-> "create",
                                             units |-> after.out.units,
                                             difficulty |-> after.out.difficulty,
                                             grammar |-> sampled.grammar,
                                             pending |-> pending]]
    /\ UNCHANGED <<history, deckVars, tags_builder, flash_card, web_app, deck_builder>>

\* the most units tagged on all the cards registered with a sentence producer
MaxTagged == 3

\* SentenceProducer._difficulty_map[unit]
ProducerDifficulty(unit) ==
    CHOOSE d \in DifficultySet : unit \in SeqSet(ProducerVocabulary(d))

\* SentenceProducer.register_card(card), for the units of the card
register_card(units) ==
    /\ sentence_producer.op = "sentences"
    /\ RegisteredCards + Cardinality(units) <= MaxTagged
    /\ \E max_difficulty \in {d \in {ProducerDifficulty(u) : u \in units} :
                                 \A v \in units :
                                     ~DifficultyLess(d, ProducerDifficulty(v))} :
           unit_producer' =
               [unit_producer EXCEPT
                   !._card_count =
                       [u \in ProducerUnits |->
                           IF u \in units THEN @[u] + 1 ELSE @[u]],
                   !._fitting_count =
                       [u \in ProducerUnits |->
                           IF u \in units /\ ProducerDifficulty(u) = max_difficulty
                           THEN @[u] + 1 ELSE @[u]],
                   !.out = [call |-> "register"]]
    /\ sentence_producer' = [sentence_producer EXCEPT !.out = [call |-> "register_card"]]
    /\ UNCHANGED <<history, deckVars, tags_builder, flash_card, web_app, deck_builder>>

\* SentenceProducer.done()
sentences_done ==
    /\ sentence_producer.op = "sentences"
    /\ \E p \in {LazyRefilled(unit_producer)} :
           /\ unit_producer' = [p EXCEPT !.out = [call |-> "done", value |-> p._done]]
           /\ sentence_producer' =
                  [sentence_producer EXCEPT
                      !.out = [call |-> "done", value |-> p._done]]
    /\ UNCHANGED <<history, deckVars, tags_builder, flash_card, web_app, deck_builder>>

\* the sentences asked of one call, and the units tagged on a card
CardsPerCall == {1, 2}

TaggedUnits == (SUBSET ProducerUnits) \ {{}}

InitS ==
    /\ history = <<>>
    /\ InitDeck
    /\ card_index = Store({}, {})
    /\ tags_builder = NoBuilder
    /\ unit_producer = UnitProducer(1)
    /\ sentence_producer \in {SentenceProducer(n) : n \in CardsPerCall}
    /\ flash_card = NoBuilder
    /\ web_app = NoBuilder
    /\ deck_builder = NoBuilder

NextS ==
    \/ create
    \/ \E units \in TaggedUnits : register_card(units)
    \/ sentences_done

SpecS == InitS /\ [][NextS]_vars

(* ------------------------- card.py: Card.split_into_parts -------------- *)

\* the characters of the sentences and the tagged words of a card
CardAlphabet == {"a", "b", " "}

\* the longest sentence of a card and the longest tagged word explored
MaxCardSentence == 4

MaxCardWord == 2

CardStrings(n) == UNION {[1..k -> CardAlphabet] : k \in 0..n}

\* str.strip()
RECURSIVE LStrip(_)
LStrip(s) == IF s # <<>> /\ Head(s) = " " THEN LStrip(Tail(s)) ELSE s

RECURSIVE RStrip(_)
RStrip(s) ==
    IF s # <<>> /\ s[Len(s)] = " " THEN RStrip(SubSeq(s, 1, Len(s) - 1)) ELSE s

Strip(s) == RStrip(LStrip(s))

\* part.split(word, maxsplit=1), for a word that occurs in the part
SplitOnce(part, word) ==
    LET p == CHOOSE q \in 1..Len(part) :
                 /\ OccursAt(word, part, q)
                 /\ \A r \in 1..(q - 1) : ~OccursAt(word, part, r)
    IN  <<SubSeq(part, 1, p - 1), SubSeq(part, p + Len(word), Len(part))>>

\* the parts appended for a part that is cut at the word
CutPart(prefix, word, unit, suffix) ==
    (IF Strip(prefix) # <<>> THEN <<<<Strip(prefix), None>>>> ELSE <<>>)
        \o <<<<word, Some(unit)>>>>
        \o (IF Strip(suffix) # <<>> THEN <<<<Strip(suffix), None>>>> ELSE <<>>)

\* the inner loop of split_into_parts over the parts from index i on: new_parts
RECURSIVE PartsLoop(_, _, _, _, _)
PartsLoop(parts, i, word, unit, found) ==
    IF i > Len(parts) THEN <<>>
    ELSE IF found \/ parts[i][2] # None \/ ~Contains(parts[i][1], word)
         THEN <<parts[i]>> \o PartsLoop(parts, i + 1, word, unit, found)
         ELSE CutPart(SplitOnce(parts[i][1], word)[1], word, unit,
                      SplitOnce(parts[i][1], word)[2])
                  \o PartsLoop(parts, i + 1, word, unit, TRUE)

\* the outer loop of split_into_parts over sorted_tags from index i on
RECURSIVE TagsLoop(_, _, _)
TagsLoop(sorted_tags, i, parts) ==
    IF i > Len(sorted_tags) THEN parts
    ELSE TagsLoop(sorted_tags, i + 1,
                  PartsLoop(parts, 1, sorted_tags[i][1], sorted_tags[i][2], FALSE))

\* sorted_tags of split_into_parts: the items of unit_tags sorted by the
\* length of the unit, then by the length of the word, longest first
SortedTags(unit_tags) == SortDesc(SortDesc(unit_tags, 2), 1)

\* Card.split_into_parts() of a card with this sentence and these unit_tags
\* (a dict kept as the list of its items)
SplitIntoParts(sentence, unit_tags) ==
    TagsLoop(SortedTags(unit_tags), 1, <<<<sentence, None>>>>)

\* Card(sentence=..., unit_tags=...)
Card(sentence, unit_tags) ==
    [op |-> "card", sentence |-> sentence, unit_tags |-> unit_tags,
     out |-> [call |-> "init"]]

\* Card.split_into_parts()
split_into_parts ==
    /\ flash_card.op = "card"
    /\ flash_card' =
           [flash_card EXCEPT
               !.out = [call |-> "split_into_parts",
                        parts |-> SplitIntoParts(flash_card.sentence,
                                                 flash_card.unit_tags)]]
    /\ UNCHANGED <<history, deckVars, tags_builder, unit_producer, sentence_producer,
                   web_app, deck_builder>>

\* the tagged words and the units of the cards explored
CardWords == CardStrings(MaxCardWord) \ {<<>>}

CardTagUnits == {<<"u">>, <<"v", "v">>}

\* the unit_tags of the cards explored: up to two tagged words
CardUnitTags ==
    {<<>>}
        \cup {<<<<w, u>>>> : w \in CardWords, u \in CardTagUnits}
        \cup {t \in {<<<<w1, u1>>, <<w2, u2>>>> :
                        w1 \in CardWords, w2 \in CardWords,
                        u1 \in CardTagUnits, u2 \in CardTagUnits} :
                 t[1][1] # t[2][1]}

InitC ==
    /\ history = <<>>
    /\ InitDeck
    /\ card_index = Store({}, {})
    /\ tags_builder = NoBuilder
    /\ unit_producer = NoBuilder
    /\ sentence_producer = NoBuilder
    /\ flash_card \in {Card(s, t) : s \in CardStrings(MaxCardSentence), t \in CardUnitTags}
    /\ web_app = NoBuilder
    /\ deck_builder = NoBuilder

NextC == split_into_parts

SpecC == InitC /\ [][NextC]_vars

(* ------------------------- learn.py: RatingWebApp ---------------------- *)

\* a slip: the rotation does not skip the score 2
SCORE_ROTATION_All == [s \in 0..3 |-> CASE s = 0 -> 3 [] s = 1 -> 0 [] s = 2 -> 1 [] s = 3 -> 2]

\* SCORE_ROTATION: the score a click on a word button moves to
SCORE_ROTATION == [s \in 0..3 |-> CASE s = 0 -> 3 [] s = 1 -> 0 [] s = 2 -> 1 [] s = 3 -> 1]

\* the most word buttons on the back of a card
MaxButtons == 2

\* the units of the tagged parts of a card in the order of
\* split_into_parts: units the card is tagged with, a unit once per marked word
ButtonRows(card) ==
    UNION {[1..n -> CardUnits(card)] : n \in 0..MaxButtons}

\* a dict as the list of its (key, value) items in insertion order
DictHas(d, key) == \E k \in 1..Len(d) : d[k][1] = key

DictGet(d, key) == d[CHOOSE k \in 1..Len(d) : d[k][1] = key][2]

\* the calls a RatingWebApp makes on its deck
CallDraw == [call |-> "draw"]

CallDrawRaised == [call |-> "draw", raised |-> TRUE]

CallRate(unit, mode, score) ==
    [call |-> "rate", unit |-> unit, mode |-> mode, score |-> score]

CallLogUsage(card_id, is_reported) ==
    [call |-> "log_usage", card_id |-> card_id, is_reported |-> is_reported]

CallSave == [call |-> "save"]

\* what a RatingWebApp leaves alone
webFrame ==
    <<history, tags_builder, unit_producer, sentence_producer, flash_card,
      deck_builder, difficulty, modes, card_index, now, ticks>>

\* RatingWebApp(deck, deck_filename): _load_next_card draws and shows the
\* front; calls are the calls on the deck since the last draw that returned,
\* it included; an error of the draw leaves no app
RatingWebApp ==
    /\ web_app = NoBuilder
    /\ draw
    /\ web_app' =
           IF result'.status = "ok"
           THEN [op |-> "app", page |-> "front", pc |-> "idle",
                 _mode |-> result'.mode, _card |-> result'.card,
                 _ratings |-> <<>>, buttons |-> <<>>, i |-> 0,
                 is_reported |-> FALSE, file |-> None,
                 calls |-> <<CallDraw>>, cycles |-> 0]
           ELSE NoBuilder
    /\ UNCHANGED <<webFrame, card_id_uses>>

\* _create_color_cycling_button for each button of the row
RECURSIVE InitialRatings(_, _)
InitialRatings(d, row) ==
    IF row = <<>> THEN d
    ELSE InitialRatings(DictSet(d, Head(row), 0), Tail(row))

\* _show_back, the click on Flip: the back of the card with one button for
\* each tagged part
_show_back ==
    /\ web_app.op = "app"
    /\ web_app.page = "front"
    /\ web_app.pc = "idle"
    /\ \E row \in ButtonRows(web_app._card) :
           web_app' = [web_app EXCEPT !.page = "back", !.buttons = row,
                                      !._ratings = InitialRatings(@, row)]
    /\ UNCHANGED <<webFrame, ratings, card_id_uses, result>>

\* cycle(b), the click on the k-th word button; self._ratings[unit] of a
\* unit that is not in the dict raises KeyError and changes nothing
cycle(k) ==
    /\ web_app.op = "app"
    /\ web_app.page = "back"
    /\ web_app.pc = "idle"
    /\ k \in 1..Len(web_app.buttons)
    /\ DictHas(web_app._ratings, web_app.buttons[k])
    /\ web_app' =
           [web_app EXCEPT !._ratings =
               DictSet(@, web_app.buttons[k],
                       SCORE_ROTATION[DictGet(@, web_app.buttons[k])])]
    /\ UNCHANGED <<webFrame, ratings, card_id_uses, result>>

RECURSIVE AllGreen(_, _)
AllGreen(d, row) ==
    IF row = <<>> THEN d
    ELSE AllGreen(DictSet(d, Head(row), 3), Tail(row))

\* make_all_green, the click on All Success
make_all_green ==
    /\ web_app.op = "app"
    /\ web_app.page = "back"
    /\ web_app.pc = "idle"
    /\ web_app.buttons # <<>>
    /\ web_app' = [web_app EXCEPT !._ratings = AllGreen(@, web_app.buttons)]
    /\ UNCHANGED <<webFrame, ratings, card_id_uses, result>>

\* the click on Next: _finalize(report_switch.value) starts
_finalize(is_reported) ==
    /\ web_app.op = "app"
    /\ web_app.page = "back"
    /\ web_app.pc = "idle"
    /\ web_app' = [web_app EXCEPT !.pc = "rate", !.i = 1,
                                  !.is_reported = is_reported]
    /\ UNCHANGED <<webFrame, ratings, card_id_uses, result>>

\* _finalize: self._deck.rate(unit, self._mode, rating) for the next item of
\* self._ratings
FinalizeRate ==
    /\ web_app.op = "app"
    /\ web_app.pc = "rate"
    /\ web_app.i <= Len(web_app._ratings)
    /\ TotalRatings < MaxRatings
    /\ \E item \in {web_app._ratings[web_app.i]} :
           /\ ratings' = Rated(item[1], web_app._mode, item[2], now)
           /\ web_app' =
                  [web_app EXCEPT !.i = @ + 1,
                       !.calls = Append(@, CallRate(item[1], web_app._mode, item[2]))]
    /\ result' = NoResult
    /\ UNCHANGED <<webFrame, card_id_uses>>

\* _finalize: self._deck.log_usage(self._card.id, is_reported=is_reported)
\* after the loop
FinalizeLogUsage ==
    /\ web_app.op = "app"
    /\ web_app.pc = "rate"
    /\ web_app.i > Len(web_app._ratings)
    /\ TotalUses < MaxUses
    /\ card_id_uses' =
           [c \in DOMAIN card_id_uses \cup {web_app._card} |->
               IF c = web_app._card
               THEN UsesGet(c) \o <<CardUsage(now, web_app.is_reported)>>
               ELSE card_id_uses[c]]
    /\ web_app' =
           [web_app EXCEPT !.pc = "save",
                !.calls = Append(@, CallLogUsage(web_app._card, web_app.is_reported))]
    /\ result' = NoResult
    /\ UNCHANGED <<webFrame, ratings>>

\* _finalize: self._deck.save(self._deck_filename)
FinalizeSave ==
    /\ web_app.op = "app"
    /\ web_app.pc = "save"
    /\ result' = Saved(SaveDoc)
    /\ web_app' = [web_app EXCEPT !.pc = "_load_next_card",
                                  !.file = Some(SaveDoc),
                                  !.calls = Append(@, CallSave)]
    /\ UNCHANGED <<webFrame, ratings, card_id_uses>>

\* _finalize: self._ratings = {} and self._load_next_card(); an error of the
\* draw ends the handler with the back of the card still shown
FinalizeLoadNextCard ==
    /\ web_app.op = "app"
    /\ web_app.pc = "_load_next_card"
    /\ draw
    /\ web_app' =
           IF result'.status = "ok"
           THEN [web_app EXCEPT !.page = "front", !.pc = "idle",
                                !._mode = result'.mode, !._card = result'.card,
                                !._ratings = <<>>, !.buttons = <<>>,
                                !.calls = <<CallDraw>>, !.cycles = @ + 1]
           ELSE [web_app EXCEPT !.pc = "idle", !._ratings = <<>>,
                                !.calls = Append(@, CallDrawRaised)]
    /\ UNCHANGED <<webFrame, card_id_uses>>

\* open_deck: a new deck on one of the card stores, with the difficulty and
\* the modes of the command line, before the page is opened
InitW ==
    /\ history = <<>>
    /\ ratings = <<>>
    /\ card_id_uses = <<>>
    /\ difficulty \in {"A1", "A2"}
    /\ modes = <<"listen", "speak">>
    /\ card_index \in Stores
    /\ now = StartTime
    /\ ticks = 0
    /\ result = NoResult
    /\ InitBuild

NextW ==
    \/ Tick(BLOCK_INTERVAL)
    \/ RatingWebApp
    \/ _show_back
    \/ \E k \in 1..MaxButtons : cycle(k)
    \/ make_all_green
    \/ \E is_reported \in BOOLEAN : _finalize(is_reported)
    \/ FinalizeRate
    \/ FinalizeLogUsage
    \/ FinalizeSave
    \/ FinalizeLoadNextCard

SpecW == InitW /\ [][NextW]_vars

(* ------------------------- builder.py: DeckBuilder --------------------- *)

\* DeckBuilder.MAX_PARALLELISM
MAX_PARALLELISM == 64

\* the most builders create_cards handles, the most a call of create returns,
\* and the most exceptions the tasks raise
MaxBuilders == 66

MaxBatch == 2

MaxSwallowed == 1

\* create_cards at `async with asyncio.TaskGroup() as tg`: the semaphore, the
\* tasks by their stage (created and not yet run, run and waiting in an await),
\* the builders left in the for loop, and the counts of what has happened
DeckBuilder ==
    [op |-> "create_cards", pc |-> "while", batch |-> 0, aborting |-> FALSE,
     _value |-> MAX_PARALLELISM, pending |-> 0, awaiting |-> 0,
     created |-> 0, ran |-> 0, released |-> 0, unrun |-> 0, swallowed |-> 0]

\* a slip: the semaphore is not released
NotReleased(b) == b

\* finally: semaphore.release()
Released(b) == [b EXCEPT !._value = @ + 1, !.released = @ + 1]

\* what create_cards leaves alone
builderFrame ==
    <<history, deckVars, tags_builder, unit_producer, sentence_producer,
      flash_card, web_app>>

\* while not sentence_producer.done(): the producer is done
ProducerDone ==
    /\ deck_builder.pc = "while"
    /\ ~deck_builder.aborting
    /\ deck_builder' = [deck_builder EXCEPT !.pc = "join"]
    /\ UNCHANGED builderFrame

\* builders, grammar = await sentence_producer.create() returns n builders
ProducerCreate(n) ==
    /\ deck_builder.pc = "while"
    /\ ~deck_builder.aborting
    /\ deck_builder.created < MaxBuilders
    /\ deck_builder' = [deck_builder EXCEPT !.pc = "for", !.batch = n]
    /\ UNCHANGED builderFrame

\* the body of the TaskGroup raises, in create or in self._card_index.save():
\* the group cancels its tasks
ProducerRaises ==
    /\ deck_builder.pc \in {"while", "save"}
    /\ ~deck_builder.aborting
    /\ deck_builder' = [deck_builder EXCEPT !.pc = "join", !.aborting = TRUE]
    /\ UNCHANGED builderFrame

\* for builder in builders: a duplicate sentence is skipped
ProducerSkipsDuplicate ==
    /\ deck_builder.pc = "for"
    /\ deck_builder.batch > 0
    /\ deck_builder' = [deck_builder EXCEPT !.batch = @ - 1]
    /\ UNCHANGED builderFrame

\* await semaphore.acquire() and tg.create_task(self._complete_card(...)):
\* acquire waits while the value is 0
ProducerCreatesTask ==
    /\ deck_builder.pc = "for"
    /\ deck_builder.batch > 0
    /\ deck_builder._value > 0
    /\ deck_builder' = [deck_builder EXCEPT !.batch = @ - 1, !._value = @ - 1,
                                            !.pending = @ + 1, !.created = @ + 1]
    /\ UNCHANGED builderFrame

\* the for loop is over: self._card_index.save() comes next
ProducerLoopEnds ==
    /\ deck_builder.pc = "for"
    /\ deck_builder.batch = 0
    /\ deck_builder' = [deck_builder EXCEPT !.pc = "save"]
    /\ UNCHANGED builderFrame

\* self._card_index.save()
ProducerSaves ==
    /\ deck_builder.pc = "save"
    /\ deck_builder' = [deck_builder EXCEPT !.pc = "while"]
    /\ UNCHANGED builderFrame

\* the first step of a task: _complete_card runs up to its first await
TaskStarts ==
    /\ deck_builder.pending > 0
    /\ ~deck_builder.aborting
    /\ deck_builder' = [deck_builder EXCEPT !.pending = @ - 1, !.awaiting = @ + 1,
                                            !.ran = @ + 1]
    /\ UNCHANGED builderFrame

\* _complete_card after the exception of an await: except Exception prints,
\* finally releases
AfterException(b) ==
    Released([b EXCEPT !.awaiting = @ - 1, !.swallowed = @ + 1])

\* llm.tag_sentence, add_filtered or create_card raises in a task
TaskRaises ==
    /\ deck_builder.awaiting > 0
    /\ ~deck_builder.aborting
    /\ deck_builder.swallowed < MaxSwallowed
    /\ deck_builder' = AfterException(deck_builder)
    /\ UNCHANGED builderFrame

\* the card of a task is created and registered; finally releases
TaskCompletes ==
    /\ deck_builder.awaiting > 0
    /\ ~deck_builder.aborting
    /\ deck_builder' = Released([deck_builder EXCEPT !.awaiting = @ - 1])
    /\ UNCHANGED builderFrame

\* a task of a cancelled group that waits in an await: CancelledError is not
\* an Exception; finally releases
TaskCancelled ==
    /\ deck_builder.awaiting > 0
    /\ deck_builder.aborting
    /\ deck_builder' = Released([deck_builder EXCEPT !.awaiting = @ - 1])
    /\ UNCHANGED builderFrame

\* a task of a cancelled group that has not run: CancelledError is thrown
\* into the coroutine before its try statement
TaskNeverRuns ==
    /\ deck_builder.pending > 0
    /\ deck_builder.aborting
    /\ deck_builder' = [deck_builder EXCEPT !.pending = @ - 1, !.unrun = @ + 1]
    /\ UNCHANGED builderFrame

\* the TaskGroup is left when all its tasks have ended
GroupExits ==
    /\ deck_builder.pc = "join"
    /\ deck_builder.pending = 0
    /\ deck_builder.awaiting = 0
    /\ deck_builder' = [deck_builder EXCEPT !.pc = "return"]
    /\ UNCHANGED builderFrame

InitB ==
    /\ history = <<>>
    /\ InitDeck
    /\ card_index = Store({}, {})
    /\ tags_builder = NoBuilder
    /\ unit_producer = NoBuilder
    /\ sentence_producer = NoBuilder
    /\ flash_card = NoBuilder
    /\ web_app = NoBuilder
    /\ deck_builder = DeckBuilder

NextB ==
    \/ ProducerDone
    \/ \E n \in 1..MaxBatch : ProducerCreate(n)
    \/ ProducerRaises
    \/ ProducerSkipsDuplicate
    \/ ProducerCreatesTask
    \/ ProducerLoopEnds
    \/ ProducerSaves
    \/ TaskStarts
    \/ TaskRaises
    \/ TaskCompletes
    \/ TaskCancelled
    \/ TaskNeverRuns
    \/ GroupExits

SpecB == InitB /\ [][NextB]_vars

(* ------------------------- claims on the deck -------------------------- *)

\* the rating history of a unit, empty for a unit never rated
HistoryOf(unit) == IF unit \in DOMAIN ratings THEN ratings[unit] ELSE <<>>

\* a unit with at least one nonzero rating
Touched(unit) == \E i \in 1..Len(HistoryOf(unit)) : HistoryOf(unit)[i].score # 0

\* the touched units
TouchedUnits == {u \in DOMAIN ratings : Touched(u)}

Position(unit) == CHOOSE pos \in 1..Len(_full_vocabulary) : _full_vocabulary[pos] = unit

\* the 1-based vocabulary positions pos = j + 1 at which
\* (touched before j + 10) / (j + 10) >= 0.5 fails, T being the touched units
FailedPositions(T) ==
    {q \in 1..Len(_full_vocabulary) :
        2 * (Cardinality({u \in T : Position(u) < q}) + 10) < (q - 1) + 10}

\* the target units that have at least one indexed card: the touch ratio holds
\* at their position and at every position before it
Candidates ==
    {_full_vocabulary[pos] :
        pos \in {pos \in 1..Len(_full_vocabulary) :
                    /\ size(_full_vocabulary[pos]) > 0
                    /\ \A q \in FailedPositions(TouchedUnits) : pos < q}}

\* the first unit in vocabulary order of a non-empty set of units
FirstUnit(S) == CHOOSE u \in S : \A v \in S : Position(u) <= Position(v)

\* C5: _choose_task considers the target units with an indexed card, in
\* vocabulary order, and returns the first urgent one; else the first that
\* needs introduction; else the first untouched one; else the one of the
\* highest urgency, the earliest among equals.  An urgent candidate is always
\* preferred to an untouched one.
C5_ChooseTaskTiers ==
    \A us \in {_compute_urgencies(now)}, cand \in {Candidates} :
        \A task \in {_choose_task(us)} :
            LET urgent == {u \in cand : UrgPositive(us[u].urgency)}
                intro == {u \in cand : us[u].needs_introduction}
                untouched == {u \in cand : ~Touched(u)}
            IN  /\ task = None <=> cand = {}
                /\ task # None =>
                    /\ task[1].unit \in cand
                    /\ task[1].mode = us[task[1].unit].mode
                    /\ IF urgent # {} THEN task[1].unit = FirstUnit(urgent)
                       ELSE IF intro # {} THEN task[1].unit = FirstUnit(intro)
                       ELSE IF untouched # {}
                       THEN task[1].unit = FirstUnit(untouched)
                       ELSE \A u \in cand :
                                /\ ~UrgLess(us[task[1].unit].urgency,
                                            us[u].urgency)
                                /\ Position(u) < Position(task[1].unit)
                                       => UrgLess(us[u].urgency,
                                                  us[task[1].unit].urgency)

\* an urgent unit is chosen although an untouched unit with a card stands
\* before it in the vocabulary
C5_Witness ==
    /\ card_index = Store({1, 2, 3}, {1, 2, 3})
    /\ ~Touched(1)
    /\ _choose_task(_compute_urgencies(now))
           = Some([step |-> 1, mode |-> "listen", unit |-> 2])

\* C6 as stated: a unit returned by the first step of _choose_task has an
\* urgency > 0 in the returned modality.
C6_Original ==
    \A task \in {_choose_task(_compute_urgencies(now))} :
        (task # None /\ task[1].step = 1)
            => UrgPositive(compute_urgency(HistoryOf(task[1].unit),
                                           task[1].mode, now))

\* C6 amended: a unit returned by the first step of _choose_task has an
\* urgency > 0 in at least one configured modality, and in the returned
\* modality itself unless the Introduction Detector has overridden it.
C6_UrgentInSomeMode ==
    \A task \in {_choose_task(_compute_urgencies(now))} :
        (task # None /\ task[1].step = 1)
            => /\ \E i \in 1..Len(modes) :
                      UrgPositive(compute_urgency(HistoryOf(task[1].unit),
                                                  modes[i], now))
               /\ needs_introduction(HistoryOf(task[1].unit), modes) = None
                      => UrgPositive(compute_urgency(HistoryOf(task[1].unit),
                                                     task[1].mode, now))

\* the first step returns a unit in its introduction modality, in which the
\* unit is not urgent
C6_Witness ==
    \E task \in {_choose_task(_compute_urgencies(now))} :
        /\ task # None
        /\ task[1].step = 1
        /\ needs_introduction(HistoryOf(task[1].unit), modes) = Some(task[1].mode)
        /\ compute_urgency(HistoryOf(task[1].unit), task[1].mode, now) = UrgZero

\* a step of draw()
DrawStep == result'.op = "draw" /\ ticks' = ticks /\ Draw

\* C7 as stated: draw() raises exactly when no vocabulary unit has a card.
C7_Original ==
    [][DrawStep => (result'.status = "ValueError"
                        <=> \A u \in Units : cards(u) = <<>>)]_vars

\* C7 amended: draw() raises "No units found" exactly when no target unit has
\* an indexed card; when a target unit has one, draw() returns a modality and
\* a card unless the card fetch is empty for every unit of the vocabulary.
C7_DrawRaises ==
    [][DrawStep =>
        /\ (result'.status = "ValueError" /\ result'.msg = "No units found")
               <=> Candidates = {}
        /\ (Candidates # {} /\ \E u \in Units : cards(u) # <<>>)
               => /\ result'.status = "ok"
                  /\ result'.mode \in ModeSet
                  /\ result'.card \in card_index.files]_vars

\* a draw has raised although a unit of the vocabulary has a card
C7_Witness ==
    /\ result = Raised("No units found", FALSE)
    /\ cards(FarUnit) # <<>>

\* the chosen unit has index entries, and its card fetch is empty
DataGap(task) == task # None /\ size(task[1].unit) > 0 /\ cards(task[1].unit) = <<>>

\* the units whose card fetch is not empty
UnitsWithCards == {u \in Units : cards(u) # <<>>}

\* C8 as stated: in the data gap draw() appends one score-0 rating to the
\* chosen unit, changes nothing else, raises nothing and returns the chosen
\* modality with a card of the first unit whose card fetch is not empty.
C8_Original ==
    [][DrawStep => \A task \in {_choose_task(_compute_urgencies(now))} :
        DataGap(task) =>
            /\ ratings' = Rated(task[1].unit, task[1].mode, 0, now)
            /\ card_id_uses' = card_id_uses
            /\ result'.status = "ok"
            /\ result'.mode = task[1].mode
            /\ UnitsWithCards # {}
            /\ result'.card \in CardIds
            /\ FirstUnit(UnitsWithCards) \in CardUnits(result'.card)]_vars

\* C8 amended: the same, provided the card fetch of some unit is not empty;
\* when it is empty for every unit, draw() appends the rating and raises.
C8_DataGap ==
    [][DrawStep => \A task \in {_choose_task(_compute_urgencies(now))} :
        DataGap(task) =>
            /\ DOMAIN ratings' = DOMAIN ratings \cup {task[1].unit}
            /\ \A u \in DOMAIN ratings' \ {task[1].unit} : ratings'[u] = ratings[u]
            /\ ratings'[task[1].unit] =
                   HistoryOf(task[1].unit) \o <<Rating(task[1].mode, now, 0)>>
            /\ card_id_uses' = card_id_uses
            /\ IF UnitsWithCards = {}
               THEN result'.status = "ValueError"
               ELSE /\ result'.status = "ok"
                    /\ result'.mode = task[1].mode
                    /\ result'.card \in card_index.files
                    /\ FirstUnit(UnitsWithCards) \in CardUnits(result'.card)]_vars

\* a draw has hit the data gap, recorded the rating and returned a card of
\* another unit
C8_Witness ==
    /\ result.op = "draw"
    /\ result.status = "ok"
    /\ result.gap
    /\ result.unit = 1
    /\ result.card = 3
    /\ HistoryOf(1) = <<Rating(result.mode, now, 0)>>

\* C9: a unit is a target exactly if the touch ratio holds at its position and
\* at every position before it, so the targets are a prefix of the vocabulary
\* and no unit after the first non-target unit is a target, touched or not.
C9_TargetPrefix ==
    \A us \in {_compute_urgencies(now)}, failed \in {FailedPositions(TouchedUnits)} :
        /\ \A pos \in 1..Len(_full_vocabulary) :
               us[_full_vocabulary[pos]].is_target <=> \A q \in failed : pos < q
        /\ \A p, q \in 1..Len(_full_vocabulary) :
               (p < q /\ us[_full_vocabulary[q]].is_target)
                   => us[_full_vocabulary[p]].is_target

\* a touched unit stands after the first non-target unit and is no target
C9_Witness ==
    /\ Touched(FarUnit)
    /\ ~_compute_urgencies(now)[FarUnit].is_target
    /\ ~_compute_urgencies(now)[FarUnit + 1].is_target
    /\ _compute_urgencies(now)[FarUnit - 1].is_target

\* C18 as stated: with an empty rating history draw() selects the first
\* configured modality and a card of the first unit in vocabulary order that
\* has a card.
C18_Original ==
    [][(DrawStep /\ ratings = <<>> /\ UnitsWithCards # {}) =>
        /\ result'.status = "ok"
        /\ result'.mode = modes[1]
        /\ result'.card \in CardIds
        /\ FirstUnit(UnitsWithCards) \in CardUnits(result'.card)]_vars

\* C18 amended: with an empty rating history, if a target unit (one of the
\* first 11 units of the vocabulary) has an indexed card and the card fetch of
\* some unit is not empty, draw() selects the first configured modality and a
\* card of the first unit in vocabulary order whose card fetch is not empty;
\* if no target unit has an indexed card, draw() raises "No units found".
C18_FreshDeck ==
    [][(DrawStep /\ ratings = <<>>) =>
        /\ Candidates = {} =>
               result'.status = "ValueError" /\ result'.msg = "No units found"
        /\ (Candidates # {} /\ UnitsWithCards # {}) =>
               /\ result'.status = "ok"
               /\ result'.mode = modes[1]
               /\ result'.card \in card_index.files
               /\ FirstUnit(UnitsWithCards) \in CardUnits(result'.card)
               /\ \A u \in Candidates : Position(u) <= TOUCH_MARGIN + 1]_vars

\* the first draw on a deck with cards, after set_modes([speak, listen]), has
\* returned speak and a card of the first unit
C18_Witness ==
    /\ ratings = <<>>
    /\ modes = <<"speak", "listen">>
    /\ result.op = "draw"
    /\ result.status = "ok"
    /\ result.mode = "speak"
    /\ result.unit = 1
    /\ 1 \in CardUnits(result.card)

\* the cards that load and are tagged with the unit
Fetched(unit) == {c \in card_index.ids \cap card_index.files : unit \in CardUnits(c)}

\* C19: the card returned by draw() is one of the cards fetched for the
\* selected unit, or for the first unit with cards in the data gap, and no
\* fetched candidate scores strictly higher under the urgency states and the
\* time of that draw.
C19_BestCard ==
    [][(DrawStep /\ result'.status = "ok") =>
        \A us \in {_compute_urgencies(now)} :
            \A candidates \in {IF Fetched(result'.unit) # {}
                                THEN Fetched(result'.unit)
                                ELSE Fetched(FirstUnit(UnitsWithCards))} :
                /\ result'.gap <=> Fetched(result'.unit) = {}
                /\ result'.card \in candidates
                /\ \A c \in candidates :
                       _score_card(c, us, now)
                           <= _score_card(result'.card, us, now)]_vars

\* a draw for the first unit has returned the card that also tags the second
\* unit, which scores higher than the card of the first unit alone
C19_Witness ==
    /\ result.op = "draw"
    /\ result.status = "ok"
    /\ ~result.gap
    /\ result.unit = 1
    /\ result.card = 2
    /\ Fetched(1) = {1, 2}
    /\ \A us \in {_compute_urgencies(now)} :
           _score_card(1, us, now) < _score_card(2, us, now)

\* the urgency states a unit can be handed to _score_card in
UnitStates ==
    {UrgencyState(touched, intro, target, urgency, "listen") :
        touched \in BOOLEAN, intro \in BOOLEAN, target \in BOOLEAN,
        urgency \in {UrgMinusOne, UrgZero, UrgOne}}

\* unit_difficulty > self._difficulty, == and < of deck.py:192-195
Harder(unit) == DifficultyRank(_difficulty_map(unit)) > DifficultyRank(difficulty)

Matching(unit) == _difficulty_map(unit) = difficulty

Easier(unit) == DifficultyRank(_difficulty_map(unit)) < DifficultyRank(difficulty)

\* the cards that tag the one unit u
CardsOf(u) == {c \in CardIds : CardUnits(c) = {u}}

\* C20: against a unit below the target difficulty in the same urgency
\* state, a unit of the target difficulty adds the match bonus to the score
\* and a unit above the target difficulty takes the difficulty penalty off
\* it; and of two cards with the same usages and one tagged unit each, in
\* the same urgency state, the one whose unit is harder than the target
\* scores strictly lower than the one whose unit is easier
C20_DifficultyTerms ==
    \A st \in UnitStates :
        /\ \A u, v \in Units :
               /\ (Matching(u) /\ Easier(v)) =>
                      UnitScore(st, u) = UnitScore(st, v) + DIFFICULTY_MATCH_BONUS
               /\ (Harder(u) /\ Easier(v)) =>
                      UnitScore(st, u) = UnitScore(st, v) - DIFFICULTY_PENALTY
        /\ \A u, v \in Units :
               (Harder(u) /\ Easier(v)) =>
                   \A c \in CardsOf(u), e \in CardsOf(v) :
                       UsesGet(c) = UsesGet(e) =>
                           _score_card(c, [x \in Units |-> st], now)
                               < _score_card(e, [x \in Units |-> st], now)

\* the part of C20 on units of the target difficulty alone, which the code
\* meets
C20_MatchBonus ==
    \A st \in UnitStates :
        \A u, v \in Units :
            (Matching(u) /\ Easier(v)) =>
                UnitScore(st, u) = UnitScore(st, v) + DIFFICULTY_MATCH_BONUS

\* the target difficulty lies between those of the first and the far unit,
\* and two cards of one unit each have the same usages
C20_Reached ==
    /\ difficulty = "A2"
    /\ UsesGet(3) # <<>>
    /\ UsesGet(1) = UsesGet(4)
    /\ Easier(1)
    /\ Harder(FarUnit)

\* C21: the penalty of an untouched unit is larger than that of a non-target
\* unit, so of two cards with the same usages and one tagged unit each, of
\* the same difficulty, needing introduction alike and of the same urgency,
\* the one whose unit is an untouched target scores lower than the one whose
\* unit is touched and no target
C21_UntouchedBelowNontarget ==
    /\ UNTOUCHED_PENALTY > NONTARGET_PENALTY
    /\ \A st \in UnitStates, u, v \in Units :
           (_difficulty_map(u) = _difficulty_map(v)) =>
               \A c \in CardsOf(u), e \in CardsOf(v) :
                   UsesGet(c) = UsesGet(e) =>
                       _score_card(c, [x \in Units |->
                               [st EXCEPT !.is_touched = FALSE,
                                          !.is_target = TRUE]], now)
                           < _score_card(e, [x \in Units |->
                               [st EXCEPT !.is_touched = TRUE,
                                          !.is_target = FALSE]], now)

(* ------------------------- claims on the whole life of a deck ---------- *)

\* C22: loading the document save writes yields the ratings, the card
\* usages, the difficulty and the mode list of the deck that was saved: the
\* same keys and under each key the same records in the same order
C22_RoundTrip ==
    \A deck \in {Load(SaveDoc)} :
        /\ deck.ok
        /\ deck.ratings = ratings
        /\ deck.card_id_uses = card_id_uses
        /\ deck.difficulty = difficulty
        /\ deck.modes = modes

\* a deck with a rating, a reported usage, a difficulty and a mode list that
\* were set has been saved and loaded
C22_Witness ==
    /\ result = [op |-> "load", status |-> "ok"]
    /\ ratings # <<>>
    /\ \E c \in DOMAIN card_id_uses : card_id_uses[c][1].is_reported
    /\ difficulty # "A1"
    /\ modes # Mode

\* C23 as stated: a second deck in the same state, at the same time and on
\* the same card store, cannot return another (modality, card) pair than the
\* one a draw has returned
C23_Original ==
    [][(DrawStep /\ result'.status = "ok") =>
          \A m \in {result'.mode}, c \in {result'.card} :
              ~ENABLED (/\ Draw
                        /\ result'.status = "ok"
                        /\ (result'.mode # m \/ result'.card # c))]_vars

\* the (modality, card) results Deck.draw() can return in this state
DrawOutcomes(urgency_states, task) ==
    IF task = None THEN {}
    ELSE IF cards(task[1].unit) # <<>>
    THEN {Drawn(task[1], card, FALSE) :
             card \in BestCards(cards(task[1].unit), urgency_states, now)}
    ELSE {Drawn(task[1], card, TRUE) :
             card \in BestCards(FallbackCards, urgency_states, now)}

\* C23: a second deck in the same state, at the same time and on the same
\* card store, returns the same modality for the same unit, and a card of
\* the same score: the same card unless several candidates share the
\* highest score
C23_SameTaskSameScore ==
    [][(DrawStep /\ result'.status = "ok") =>
          \A us \in {_compute_urgencies(now)} :
              \A outcomes \in {DrawOutcomes(us, _choose_task(us))} :
                  /\ result' \in outcomes
                  /\ \A o \in outcomes :
                         /\ o.mode = result'.mode
                         /\ o.unit = result'.unit
                         /\ _score_card(o.card, us, now)
                                = _score_card(result'.card, us, now)]_vars

\* a draw has returned the second of two cards of a unit, of which only the
\* first was used
C23_Witness ==
    /\ result.op = "draw"
    /\ result.status = "ok"
    /\ result.card = 5
    /\ UsesGet(3) # <<>>
    /\ UsesGet(5) = <<>>

\* the list a is the beginning of the list b
IsPrefix(a, b) == Len(a) <= Len(b) /\ \A i \in 1..Len(a) : a[i] = b[i]

\* no rating and no usage is removed, reordered or altered by the step
RecordsKept ==
    /\ \A u \in DOMAIN ratings :
           u \in DOMAIN ratings' /\ IsPrefix(ratings[u], ratings'[u])
    /\ \A c \in DOMAIN card_id_uses :
           c \in DOMAIN card_id_uses' /\ IsPrefix(card_id_uses[c], card_id_uses'[c])

\* the step appends the one record rec to the list of key in the map f, and
\* leaves every other list of the map as it is
AppendsOne(f, g, key, rec) ==
    /\ DOMAIN g = DOMAIN f \cup {key}
    /\ g[key] = (IF key \in DOMAIN f THEN f[key] ELSE <<>>) \o <<rec>>
    /\ \A k \in DOMAIN f \ {key} : g[k] = f[k]

\* what rate and log_usage do to the rating and usage lists
RateAndLogAppend ==
    /\ \A unit \in RatedUnits, mode \in HistModes, score \in UiScores :
           rate(unit, mode, score) =>
               /\ AppendsOne(ratings, ratings', unit, Rating(mode, now, score))
               /\ card_id_uses' = card_id_uses
    /\ \A c \in card_index.ids, r \in BOOLEAN :
           log_usage(c, r) =>
               /\ AppendsOne(card_id_uses, card_id_uses', c, CardUsage(now, r))
               /\ ratings' = ratings

\* the step is a call of rate by the caller
RateStep ==
    \E unit \in RatedUnits, mode \in HistModes, score \in UiScores :
        rate(unit, mode, score)

\* C24 as stated: records are only ever appended, rate and log_usage append
\* exactly one record to one list, and the rating lists change in no step
\* but a caller's rate
C24_Original ==
    [][/\ RecordsKept
       /\ RateAndLogAppend
       /\ (ratings' # ratings => RateStep)]_vars

\* C24: records are only ever appended, rate and log_usage append exactly
\* one record to one list, and the rating lists change only in a caller's
\* rate and in a draw for a unit without cards, which appends one rating of
\* score 0 in the chosen modality to the list of the chosen unit
C24_AppendOnly ==
    [][/\ RecordsKept
       /\ RateAndLogAppend
       /\ (ratings' # ratings =>
              \/ RateStep
              \/ /\ DrawStep
                 /\ result'.gap
                 /\ cards(result'.unit) = <<>>
                 /\ AppendsOne(ratings, ratings', result'.unit,
                               Rating(result'.mode, now, 0)))]_vars

\* a draw for a unit without cards has added a second forced rating to the
\* list of that unit, next to a logged usage
C24_Witness ==
    /\ result.op = "draw"
    /\ result.status = "ok"
    /\ result.gap
    /\ Len(ratings[result.unit]) = 2
    /\ card_id_uses # <<>>

\* C25: every key of the rating map is a unit of the vocabulary and every
\* key of the usage map is the id of a card of the card store
C25_KeysExist ==
    /\ DOMAIN ratings \subseteq Units
    /\ DOMAIN card_id_uses \subseteq card_index.ids

\* the step is a call of stats
StatsStep == result'.op = "stats" /\ stats

\* C26: stats returns the number of target units of positive urgency as
\* waiting and the number of touched units of urgency 0 or less as
\* satisfied, from the urgencies at the time of the call; it changes nothing
\* of the deck, counts no unit twice and no untouched unit, so that the two
\* numbers add up to the number of touched units at most
C26_Stats ==
    [][StatsStep =>
          \A us \in {_compute_urgencies(now)} :
              \A W \in {{u \in Units : us[u].is_target /\ UrgPositive(us[u].urgency)}},
                 S \in {{u \in Units : us[u].is_touched /\ ~UrgPositive(us[u].urgency)}} :
                  /\ result'.waiting = Cardinality(W)
                  /\ result'.satisfied = Cardinality(S)
                  /\ W \cap S = {}
                  /\ W \cup S \subseteq TouchedUnits
                  /\ result'.waiting + result'.satisfied <= Cardinality(TouchedUnits)
                  /\ UNCHANGED <<ratings, card_id_uses, difficulty, modes,
                                 card_index, now>>]_vars

\* stats has counted one waiting and one satisfied unit
C26_Witness ==
    /\ result.op = "stats"
    /\ result.waiting = 1
    /\ result.satisfied = 1

\* the file has every required member, known difficulty and mode tokens,
\* every field of every rating record and the given fields of every usage
\* record
WellFormedWith(doc, usage_fields) ==
    /\ RequiredKeys \subseteq Keys(doc)
    /\ Get(doc, "target_language") \in LANGUAGES
    /\ Get(doc, "native_language") \in LANGUAGES
    /\ Get(doc, "difficulty") \in DifficultySet
    /\ \A i \in 1..Len(Get(doc, "modes")) : Get(doc, "modes")[i] \in ModeSet
    /\ \A i \in 1..Len(Get(doc, "ratings")) :
           \A j \in 1..Len(Get(doc, "ratings")[i][2]) :
               /\ {"mode", "time", "score"} \subseteq Keys(Get(doc, "ratings")[i][2][j])
               /\ Get(Get(doc, "ratings")[i][2][j], "mode") \in ModeSet
    /\ \A i \in 1..Len(Get(doc, "card_id_uses")) :
           \A j \in 1..Len(Get(doc, "card_id_uses")[i][2]) :
               usage_fields \subseteq Keys(Get(doc, "card_id_uses")[i][2][j])

WellFormed(doc) == WellFormedWith(doc, {"time", "is_reported"})

\* the step is a call of load
LoadStep == result'.op = "load" /\ load

\* C27: load of a file that lacks a required member or a field of a rating
\* or usage record, or that holds an unknown mode or difficulty token, ends
\* in an error and yields no deck
C27_LoadFailsFast ==
    [][(LoadStep /\ ~WellFormed(result.file)) => result'.status # "ok"]_vars

\* the part of C27 the code meets: load of a file that lacks a required
\* member, a field of a rating record or the time of a usage record, or
\* that holds an unknown token, ends in an error, and load of any other file
\* yields a deck
C27_ButReportFlag ==
    [][LoadStep =>
          (result'.status = "ok" <=> WellFormedWith(result.file, {"time"}))]_vars

(* ------------------------- the urgency helpers on one history ---------- *)

InitU ==
    /\ history = <<>>
    /\ ratings = <<>>
    /\ card_id_uses = <<>>
    /\ difficulty = "A1"
    /\ modes = Mode
    /\ card_index = Store({}, {})
    /\ now = StartTime
    /\ ticks = 0
    /\ result = NoResult
    /\ InitBuild

\* one more rating is appended to the history, as Deck.rate does
AppendRating(m, s, gap) ==
    /\ Len(history) < MaxHist
    /\ history' = Append(history, Rating(m, LastTime(history) + gap, s))
    /\ UNCHANGED <<deckVars, buildVars>>

NextU == \E m \in HistModes, s \in Scores, gap \in Gaps : AppendRating(m, s, gap)

SpecU == InitU /\ [][NextU]_vars

(* ------------------------- claims on compute_urgency ------------------- *)

\* the most recent rating of mode m with a nonzero score sits at index i
IsLastNonZero(h, m, i) ==
    /\ i \in 1..Len(h)
    /\ h[i].mode = m
    /\ h[i].score # 0
    /\ \A j \in (i + 1)..Len(h) : h[j].mode = m => h[j].score = 0

\* C1: if the most recent nonzero rating in a modality is a fail or near-fail,
\* compute_urgency is exactly 1.0 at every time, whatever score-0 ratings of
\* the modality or ratings of other modalities follow it.
C1_FailIsUrgent ==
    \A m \in ModeSet, t \in Nows(history), i \in 1..Len(history) :
        (IsLastNonZero(history, m, i) /\ history[i].score \in {1, 2})
            => compute_urgency(history, m, t) = UrgOne

C1_Witness ==
    /\ Len(history) = 3
    /\ history[1] = Rating("listen", StartTime + 1, 2)
    /\ history[2].mode = "listen" /\ history[2].score = 0
    /\ history[3].mode = "speak" /\ history[3].score = 3
    /\ compute_urgency(history, "listen", LastTime(history) + 1) = UrgOne
    /\ compute_urgency(history, "listen",
                       LastTime(history) + ALL_GREEN_MINIMUM) = UrgOne

\* C2: a history without a nonzero rating in a modality (empty, score-0 only,
\* or rated in other modalities only) has urgency exactly 0.0 in that modality
\* at every time.
C2_UnratedIsZero ==
    \A m \in ModeSet, t \in Nows(history) :
        (\A i \in 1..Len(history) :
            history[i].mode = m => history[i].score = 0)
            => compute_urgency(history, m, t) = UrgZero

C2_Witness ==
    /\ Len(history) = 2
    /\ history[1].mode = "listen" /\ history[1].score = 0
    /\ history[2].mode = "speak" /\ history[2].score = 1
    /\ compute_urgency(history, "listen", LastTime(history) + 1) = UrgZero
    /\ compute_urgency(history, "speak", LastTime(history) + 1) # UrgZero

\* C3 as stated: one second after the last rating, whatever its score, the
\* urgency in the modality of that rating is -1.0.
C3_Original ==
    Len(history) > 0 =>
        compute_urgency(history, history[Len(history)].mode,
                        LastTime(history) + 1) = UrgMinusOne

\* C3 amended: one second after the last rating the urgency in the modality of
\* that rating is -1.0, provided the most recent nonzero rating of that
\* modality is a success.
C3_BlockAfterSuccess ==
    \A i \in 1..Len(history) :
        (IsLastNonZero(history, history[Len(history)].mode, i)
            /\ history[i].score = 3)
            => compute_urgency(history, history[Len(history)].mode,
                               LastTime(history) + 1) = UrgMinusOne

C3_Witness ==
    /\ Len(history) = 1
    /\ history[1].score = 3
    /\ compute_urgency(history, history[1].mode, history[1].time + 1)
           = UrgMinusOne

\* the time of the most recent rating of mode m, for a history that has one
LastTimeInMode(h, m) ==
    LET idx == {i \in 1..Len(h) : h[i].mode = m}
    IN  h[CHOOSE i \in idx : \A j \in idx : j <= i].time

\* C4 as stated: when the last nonzero rating in a modality is a success, the
\* urgency is -1.0 exactly while now is less than 20 hours after the most
\* recent rating of that same modality.
C4_Original ==
    \A m \in ModeSet, t \in Nows(history), i \in 1..Len(history) :
        (IsLastNonZero(history, m, i) /\ history[i].score = 3)
            => (compute_urgency(history, m, t) = UrgMinusOne
                    <=> t < LastTimeInMode(history, m) + BLOCK_INTERVAL)

\* C4 amended: when the last nonzero rating in a modality is a success, the
\* urgency is -1.0 exactly while now is less than 20 hours after the most
\* recent rating of the unit in any modality.
C4_BlockByAnyMode ==
    \A m \in ModeSet, t \in Nows(history), i \in 1..Len(history) :
        (IsLastNonZero(history, m, i) /\ history[i].score = 3)
            => (compute_urgency(history, m, t) = UrgMinusOne
                    <=> t < history[Len(history)].time + BLOCK_INTERVAL)

C4_Witness ==
    /\ Len(history) = 2
    /\ history[1].mode = "listen" /\ history[1].score = 3
    /\ history[2].mode = "speak"
    /\ history[2].time >= history[1].time + BLOCK_INTERVAL
    /\ compute_urgency(history, "listen", history[2].time + 1) = UrgMinusOne
    /\ compute_urgency(history, "listen",
                       history[2].time + BLOCK_INTERVAL) # UrgMinusOne

(* ------------------------- claims on needs_introduction ---------------- *)

\* C10: for the empty history and every non-empty configured mode list,
\* needs_introduction returns the first mode of the list.
C10_EmptyHistoryFirstMode ==
    history = <<>> =>
        \A ms \in ModeLists :
            needs_introduction(history, ms) = Some(ms[1])

C10_Witness ==
    /\ history = <<>>
    /\ needs_introduction(history, <<"speak", "listen">>) = Some("speak")
    /\ needs_introduction(history, <<"write">>) = Some("write")

\* the number of success ratings of mode m in h
Successes(h, m) == Cardinality({i \in 1..Len(h) : h[i].mode = m /\ h[i].score = 3})

\* the score of the first rating of mode m in h with a nonzero score, 0 if
\* there is none
FirstNonZeroScore(h, m) ==
    LET idx == {i \in 1..Len(h) : h[i].mode = m /\ h[i].score # 0}
    IN  IF idx = {} THEN 0 ELSE h[CHOOSE i \in idx : \A j \in idx : i <= j].score

\* C11: needs_introduction never returns a modality in which the history
\* holds at least two success ratings and whose first nonzero score is not a
\* fail or near-fail, whatever the configured mode list is.
C11_TwoGreensNotReturned ==
    \A ms \in ModeLists, m \in ModeSet :
        (Successes(history, m) >= 2 /\ FirstNonZeroScore(history, m) \notin {1, 2})
            => needs_introduction(history, ms) # Some(m)

\* listen has two successes, neither of them a qualifying first score, speak
\* started with a fail: the introduction goes on with speak, not with listen
C11_Witness ==
    /\ Len(history) = 3
    /\ history[1] = Rating("speak", StartTime + 1, 1)
    /\ history[2] = Rating("listen", StartTime + 2, 3)
    /\ history[3] = Rating("listen", StartTime + 3, 3)
    /\ IntroScan(history).first_score["listen"] = 0
    /\ needs_introduction(history, <<"listen", "speak">>) = Some("speak")

\* the qualifying first score of mode m in h: the score of the first rating
\* of m that is a fail or near-fail, or a success that does not lie within one
\* block interval of the rating before it; 0 if there is none
QualifyingFirstScore(h, m) ==
    LET idx == {i \in 1..Len(h) :
                   /\ h[i].mode = m
                   /\ \/ h[i].score \in {1, 2}
                      \/ /\ h[i].score = 3
                         /\ (i = 1 \/ h[i].time >= h[i - 1].time + BLOCK_INTERVAL)}
    IN  IF idx = {} THEN 0 ELSE h[CHOOSE i \in idx : \A j \in idx : i <= j].score

\* C12 as stated: if some modality's qualifying first score is a success and
\* no modality's first nonzero score is a fail or near-fail, needs_introduction
\* returns none.
C12_Original ==
    \A ms \in ModeLists :
        (/\ \E m \in ModeSet : QualifyingFirstScore(history, m) = 3
         /\ \A m \in ModeSet : FirstNonZeroScore(history, m) \notin {1, 2})
            => needs_introduction(history, ms) = None

\* C12 amended: if some modality's qualifying first score is a success and no
\* modality's qualifying first score is a fail or near-fail, needs_introduction
\* returns none, also when a configured modality has never been rated or has
\* fewer than two successes.
C12_PerfectStart ==
    \A ms \in ModeLists :
        (/\ \E m \in ModeSet : QualifyingFirstScore(history, m) = 3
         /\ \A m \in ModeSet : QualifyingFirstScore(history, m) \notin {1, 2})
            => needs_introduction(history, ms) = None

\* one success in listen, speak never rated: no modality needs introduction
C12_Witness ==
    /\ history = <<Rating("listen", StartTime + BLOCK_INTERVAL, 3)>>
    /\ QualifyingFirstScore(history, "listen") = 3
    /\ Successes(history, "listen") < MIN_GREENS
    /\ needs_introduction(history, <<"listen", "speak">>) = None
    /\ needs_introduction(history, <<"speak">>) = None

\* the perfect-start exemption: some modality's qualifying first score is a
\* success and none is a fail or near-fail
PerfectStart(h) ==
    /\ \E m \in ModeSet : QualifyingFirstScore(h, m) = 3
    /\ \A m \in ModeSet : QualifyingFirstScore(h, m) \notin {1, 2}

\* the positions of ms whose modality has fewer than 2 successes and a
\* qualifying first score that is not a success
LackingPositions(h, ms) ==
    {i \in 1..Len(ms) :
        Successes(h, ms[i]) < 2 /\ QualifyingFirstScore(h, ms[i]) # 3}

\* C13: when the perfect-start exemption does not apply, needs_introduction
\* returns the earliest modality of the configured list that has fewer than 2
\* successes and a qualifying first score that is not a success, and none if
\* there is none; its result is always none or a member of the list.
C13_EarliestLacking ==
    \A ms \in ModeLists \cup {<<>>} :
        \A r \in {needs_introduction(history, ms)} :
            /\ r = None \/ \E i \in 1..Len(ms) : r = Some(ms[i])
            /\ ~PerfectStart(history) =>
                   \A lacking \in {LackingPositions(history, ms)} :
                       IF lacking = {} THEN r = None
                       ELSE r = Some(ms[CHOOSE i \in lacking :
                                           \A j \in lacking : i <= j])

\* listen started with a fail and has two successes since: with speak
\* configured first the introduction is speak, with listen alone it is over
C13_Witness ==
    /\ Len(history) = 3
    /\ history[1].mode = "listen" /\ history[1].score = 1
    /\ Successes(history, "listen") = 2
    /\ ~PerfectStart(history)
    /\ needs_introduction(history, <<"speak", "listen">>) = Some("speak")
    /\ needs_introduction(history, <<"listen", "speak">>) = Some("speak")
    /\ needs_introduction(history, <<"listen">>) = None

(* ------------------------- claims on _extract_good_interval ------------ *)

\* the streak length returned for h and m is at least 14 days
AtLeastMinimum(h, m) ==
    \A e \in {_extract_good_interval(h, m)} :
        ~RatLess(e.gn, e.gd, ALL_GREEN_MINIMUM, 1)

\* the rating at index i of h lies strictly after the block window of the
\* rating before it
AfterBlock(h, i) == i = 1 \/ h[i].time > h[i - 1].time + BLOCK_INTERVAL

\* C14 as stated: a history whose ratings in m hold a success and no fail or
\* near-fail has a streak length of at least 14 days in m.
C14_Original ==
    \A m \in ModeSet :
        (/\ \E i \in 1..Len(history) : history[i].mode = m /\ history[i].score = 3
         /\ \A i \in 1..Len(history) :
                history[i].mode = m => history[i].score \notin {1, 2})
            => AtLeastMinimum(history, m)

\* C14 amended: a history whose ratings in m hold a success that lies strictly
\* after the block window of the rating before it (of any modality), and no
\* fail or near-fail, has a streak length of at least 14 days in m.
C14_AllGreenFloor ==
    \A m \in ModeSet :
        (/\ \E i \in 1..Len(history) :
                /\ history[i].mode = m
                /\ history[i].score = 3
                /\ AfterBlock(history, i)
         /\ \A i \in 1..Len(history) :
                history[i].mode = m => history[i].score \notin {1, 2})
            => AtLeastMinimum(history, m)

\* two successes in listen, a block interval and a second apart: the streak
\* measured is shorter than 14 days and is raised to them
C14_Witness ==
    /\ Len(history) = 3
    /\ \A i \in 1..3 : history[i].mode = "listen" /\ history[i].score = 3
    /\ history[3].time - history[1].time = BLOCK_INTERVAL + 1
    /\ \A e \in {_extract_good_interval(history, "listen")} :
           /\ e.gn = ALL_GREEN_MINIMUM /\ e.gd = 1
           /\ e.last_good = Some(history[1].time)

(* ------------------------- claims on the interval formula -------------- *)

\* the whole seconds around the target time last_good + 0.8 * streak length of
\* the extracted interval e
TargetNows(e) ==
    IF e.last_good = None THEN {}
    ELSE LET whole == (INTERVAL_FACTOR_NUM * e.gn) \div (INTERVAL_FACTOR_DEN * e.gd)
         IN  {e.last_good[1] + whole + d : d \in {-1, 0, 1}}

\* C15: when compute_urgency reaches the interval formula (the last nonzero
\* rating in m is a success, now is outside the block window and a last
\* success exists) the result is > 0 exactly when now is after
\* last_success + 0.8 * streak length, 0 exactly at that time, < 0 exactly
\* before it, and never one of the literals 1.0 and -1.0: it is a value of
\* sigmoid - 0.5, which lies within [-0.5, 0.5].
C15_SignAtTarget ==
    \A m \in ModeSet :
        \A e \in {_extract_good_interval(history, m)} :
            \A t \in Nows(history) \cup TargetNows(e) :
                (/\ \E i \in 1..Len(history) :
                        IsLastNonZero(history, m, i) /\ history[i].score = 3
                 /\ t >= LastTime(history) + BLOCK_INTERVAL
                 /\ e.last_good # None)
                    => \A u \in {compute_urgency(history, m, t)} :
                         \A past \in {INTERVAL_FACTOR_DEN * e.gd * (t - e.last_good[1])},
                            due \in {INTERVAL_FACTOR_NUM * e.gn} :
                             /\ u.tier = 0
                             /\ UrgPositive(u) <=> past > due
                             /\ u = UrgZero <=> past = due
                             /\ UrgLess(u, UrgZero) <=> past < due

\* one success in listen: the urgency is 0.0 at 0.8 * 14 days after it,
\* negative a second before and positive a second after
C15_Witness ==
    /\ Len(history) = 1
    /\ history[1].mode = "listen" /\ history[1].score = 3
    /\ \A target \in {history[1].time
                        + (INTERVAL_FACTOR_NUM * ALL_GREEN_MINIMUM)
                              \div INTERVAL_FACTOR_DEN} :
           /\ target \in TargetNows(_extract_good_interval(history, "listen"))
           /\ compute_urgency(history, "listen", target) = UrgZero
           /\ UrgLess(compute_urgency(history, "listen", target - 1), UrgZero)
           /\ UrgPositive(compute_urgency(history, "listen", target + 1))

(* ------------------------- claims on the near-fail score ---------------- *)

\* the history h with the score of its rating at index i set to 1
AsFail(h, i) == [h EXCEPT ![i] = Rating(h[i].mode, h[i].time, 1)]

\* C16: replacing any score-2 rating of a history by a score-1 rating of the
\* same modality and time changes neither _extract_good_interval,
\* compute_urgency, needs_introduction nor _is_untouched, for every modality,
\* time and mode list; these are all that the task choice reads of a history.
C16_NearFailAsFail ==
    \A i \in {i \in 1..Len(history) : history[i].score = 2} :
        \A h1 \in {AsFail(history, i)} :
            /\ \A m \in ModeSet :
                   /\ _extract_good_interval(h1, m)
                          = _extract_good_interval(history, m)
                   /\ \A t \in Nows(history) :
                          compute_urgency(h1, m, t) = compute_urgency(history, m, t)
            /\ \A ms \in ModeLists :
                   needs_introduction(h1, ms) = needs_introduction(history, ms)
            /\ _is_untouched(h1) = _is_untouched(history)

\* a near-fail is the last nonzero rating of listen: it makes listen urgent
\* and the next modality to introduce, as a fail in its place does
C16_Witness ==
    /\ Len(history) = 2
    /\ history[1].mode = "listen" /\ history[1].score = 3
    /\ history[2].mode = "listen" /\ history[2].score = 2
    /\ AsFail(history, 2) # history
    /\ compute_urgency(history, "listen", LastTime(history) + 1) = UrgOne
    /\ compute_urgency(AsFail(history, 2), "listen", LastTime(history) + 1) = UrgOne
    /\ _extract_good_interval(history, "listen").gd = INTERVAL_DECAY_DEN

(* ------------------------- claims on ties between modalities ----------- *)

\* the position of the mode m in the declaration order of Mode
DeclRank(m) == CHOOSE k \in 1..Len(Mode) : Mode[k] = m

\* the modes of the list ms that share the highest urgency of h at time t
TiedModes(h, ms, t) ==
    {ms[i] : i \in {i \in 1..Len(ms) :
        \A j \in 1..Len(ms) :
            ~UrgLess(compute_urgency(h, ms[i], t), compute_urgency(h, ms[j], t))}}

\* the mode lists and times at which two or more configured modes tie for the
\* highest urgency of the touched history h and no introduction is needed
TieCases(h) ==
    {c \in ModeLists \X Nows(h) :
        /\ ~_is_untouched(h)
        /\ needs_introduction(h, c[1]) = None
        /\ Cardinality(TiedModes(h, c[1], c[2])) >= 2}

\* C17: when two or more configured modalities tie for the highest urgency of
\* a touched unit and no introduction is needed, the same end of the
\* declaration order listen, speak, read, write wins for every tied set:
\* always the earliest-declared tied modality, or always the latest-declared.
C17_DeclarationOrderTieBreak ==
    \A cases \in {TieCases(history)} :
        \/ \A c \in cases :
               \A m \in TiedModes(history, c[1], c[2]) :
                   DeclRank(MaxUrgency(history, c[1], c[2])[2]) <= DeclRank(m)
        \/ \A c \in cases :
               \A m \in TiedModes(history, c[1], c[2]) :
                   DeclRank(MaxUrgency(history, c[1], c[2])[2]) >= DeclRank(m)

(* ------------------------- claims on the blocked success --------------- *)

\* the history h with the score of its rating at index i set to 0
AsBlue(h, i) == [h EXCEPT ![i] = Rating(h[i].mode, h[i].time, 0)]

\* the rating at index i of h is a success recorded within the block
\* interval of the rating before it, which has score 0 or another modality
BlockedSuccess(h, i) ==
    /\ i > 1
    /\ h[i].score = 3
    /\ h[i].time < h[i - 1].time + BLOCK_INTERVAL
    /\ (h[i - 1].score = 0 \/ h[i - 1].mode # h[i].mode)

\* C28: replacing a blocked success by a score-0 rating of the same modality
\* and time leaves compute_urgency in that modality unchanged, at every
\* later time and whatever ratings follow it
C28_BlockedSuccessAsBlue ==
    \A i \in {i \in 1..Len(history) : BlockedSuccess(history, i)} :
        \A t \in Nows(history) :
            compute_urgency(AsBlue(history, i), history[i].mode, t)
                = compute_urgency(history, history[i].mode, t)

\* what the code keeps of C28: the replacement changes nothing of
\* _extract_good_interval, and nothing of compute_urgency once a later
\* nonzero rating of the modality follows
C28_ExtractUnchanged ==
    \A i \in {i \in 1..Len(history) : BlockedSuccess(history, i)} :
        /\ _extract_good_interval(AsBlue(history, i), history[i].mode)
               = _extract_good_interval(history, history[i].mode)
        /\ (\E j \in (i + 1)..Len(history) :
                history[j].mode = history[i].mode /\ history[j].score # 0)
               => \A t \in Nows(history) :
                      compute_urgency(AsBlue(history, i), history[i].mode, t)
                          = compute_urgency(history, history[i].mode, t)

(* ------------------------- claims on the unit tags builder ------------- *)

\* every occurrence of the word short in the sentence lies inside an
\* occurrence of the word long, and there is one
OnlyInside(sentence, short, long) ==
    /\ Contains(sentence, short)
    /\ \A p \in 1..Len(sentence) :
           OccursAt(short, sentence, p) =>
               \E q \in 1..Len(sentence) :
                   /\ OccursAt(long, sentence, q)
                   /\ q <= p
                   /\ p + Len(short) <= q + Len(long)

\* C29: once a tag for a longer word is accepted, a call of add_filtered that
\* offers a shorter word which occurs in the sentence only inside that longer
\* word leaves unit_tags as it is
C29_LongThenShort ==
    [][\A new_tag_list \in NewTagLists :
          (/\ add_filtered(new_tag_list, TagVocabulary)
           /\ \E i \in 1..Len(tags_builder.unit_tags) :
                  /\ Len(new_tag_list[1][1]) < Len(tags_builder.unit_tags[i][1])
                  /\ OnlyInside(tags_builder.sentence, new_tag_list[1][1],
                                tags_builder.unit_tags[i][1]))
              => tags_builder'.unit_tags = tags_builder.unit_tags]_vars

\* the scenario of test_long_then_short: the longer word occurs once, with
\* nothing before it, and the shorter word offered for itself is not taken
C29_TestScenario ==
    [][\A new_tag_list \in NewTagLists :
          (/\ add_filtered(new_tag_list, TagVocabulary)
           /\ Len(tags_builder.unit_tags) = 1
           /\ Len(new_tag_list[1][1]) < Len(tags_builder.unit_tags[1][1])
           /\ OccursAt(tags_builder.unit_tags[1][1], tags_builder.sentence, 1)
           /\ \A q \in 2..Len(tags_builder.sentence) :
                  ~OccursAt(tags_builder.unit_tags[1][1], tags_builder.sentence, q)
           /\ OnlyInside(tags_builder.sentence, new_tag_list[1][1],
                         tags_builder.unit_tags[1][1]))
              => /\ tags_builder'.unit_tags = tags_builder.unit_tags
                 /\ tags_builder'._no_progress_counter = DONE_AFTER]_vars

(* ------------------------- claims on the unit producer ----------------- *)

\* the lowest difficulty whose pool holds a unit
LowestFilled(p) ==
    CHOOSE d \in FilledPools(p) : \A e \in FilledPools(p) : ~DifficultyLess(e, d)

\* C30: draw(count), called while the producer is not done, returns at most
\* count units, exactly count when the pool it draws from holds that many;
\* they are units of one difficulty, the lowest whose pool is not empty; none
\* of them had all its fitting cards when the pools were last refilled, and
\* none was returned before in the same round of the pools
C30_Draw ==
    [][\A count \in DrawCounts :
          (/\ unit_producer.op = "producer"
           /\ producer_draw(count)
           /\ unit_producer'.out.call = "draw"
           /\ ~LazyRefilled(unit_producer)._done)
              => \A p \in {LazyRefilled(unit_producer)}, out \in {unit_producer'.out} :
                     /\ "units" \in DOMAIN out
                     /\ FilledPools(p) # {}
                     /\ Len(out.units) <= count
                     /\ Len(p._unit_pools[LowestFilled(p)]) >= count
                            => Len(out.units) = count
                     /\ Len(out.units) >= 1
                     /\ out.difficulty = <<LowestFilled(p)>>
                     /\ SeqSet(out.units)
                            \subseteq SeqSet(ProducerVocabulary(LowestFilled(p)))
                     /\ \A u \in SeqSet(out.units) :
                            /\ p.round_fitting[u] < p._cards_per_unit
                            /\ u \notin p.round_drawn
                     /\ Cardinality(SeqSet(out.units)) = Len(out.units)]_vars

\* a call of draw has returned the one unit of the second difficulty, in a
\* round in which a unit of the first difficulty with all its fitting cards
\* is left out
C30_Witness ==
    /\ unit_producer.op = "producer"
    /\ unit_producer.out.call = "draw"
    /\ "units" \in DOMAIN unit_producer.out
    /\ unit_producer.out.units = <<3>>
    /\ unit_producer.out.difficulty = <<"A2">>
    /\ unit_producer._fitting_count[1] >= unit_producer._cards_per_unit
    /\ ~unit_producer._done

(* ------------------------- claims on done of the unit producer --------- *)

\* every unit of the vocabulary has cards_per_unit fitting cards registered
AllFitting(p) ==
    \A u \in ProducerUnits : p._fitting_count[u] >= p._cards_per_unit

DoneStep ==
    /\ unit_producer.op = "producer"
    /\ producer_done
    /\ unit_producer'.out.call = "done"

\* C31: a call of done() made when every unit of the vocabulary has been
\* registered as fitting at least cards_per_unit times returns true, whatever
\* calls came before
C31_DoneWhenAllFitting ==
    [][(DoneStep /\ AllFitting(unit_producer))
           => unit_producer'.out.value = TRUE]_vars

\* the other half of C31: done() returns false while a unit is short of its
\* fitting cards
C31_NotDoneWhileShort ==
    [][(DoneStep /\ ~AllFitting(unit_producer))
           => unit_producer'.out.value = FALSE]_vars

\* the order of test_register_all_done: with no call of done or draw before
\* the units are registered, done() returns true
C31_TestScenario ==
    [][(DoneStep /\ AllFitting(unit_producer)
            /\ DOMAIN unit_producer._unit_pools = {})
           => unit_producer'.out.value = TRUE]_vars

(* ------------------------- claims on the sentence producer ------------- *)

\* a call of create that returned, straight after a call of create that
\* returned, both made with at least two units lacking fitting cards
TwoCreates ==
    /\ sentence_producer.op = "sentences"
    /\ sentence_producer.out.call = "create"
    /\ "grammar" \in DOMAIN sentence_producer.out
    /\ create
    /\ "grammar" \in DOMAIN sentence_producer'.out
    /\ sentence_producer.out.pending >= 2
    /\ sentence_producer'.out.pending >= 2

\* C32: two consecutive calls of create, made while at least two units are
\* pending, return different grammar concepts and disjoint lists of units
C32_ConsecutiveCreatesDiffer ==
    [][TwoCreates
           => /\ sentence_producer'.out.grammar # sentence_producer.out.grammar
              /\ SeqSet(sentence_producer'.out.units)
                     \cap SeqSet(sentence_producer.out.units) = {}]_vars

\* what holds of the grammar: two consecutive calls that draw the same
\* difficulty, the second from the pool the first left, return different
\* concepts
C32_SamePoolDiffers ==
    [][(/\ TwoCreates
        /\ sentence_producer'.out.difficulty = sentence_producer.out.difficulty
        /\ sentence_producer._grammar_pools[sentence_producer.out.difficulty] # <<>>)
           => sentence_producer'.out.grammar # sentence_producer.out.grammar]_vars

\* what holds of the units: two consecutive calls return disjoint lists
\* unless the first one emptied the pools, which refills them
C32_SameRoundDisjoint ==
    [][(/\ TwoCreates
        /\ SeqSet(sentence_producer.out.units) \subseteq unit_producer.round_drawn)
           => SeqSet(sentence_producer'.out.units)
                  \cap SeqSet(sentence_producer.out.units) = {}]_vars

\* the calls of test_double_create: one sentence per call, no card registered,
\* the first call returning the first unit of the vocabulary
C32_TestScenario ==
    [][(/\ TwoCreates
        /\ sentence_producer._cards_per_call = 1
        /\ RegisteredCards = 0
        /\ sentence_producer.out.units = <<ProducerVocabulary("A1")[1]>>)
           => /\ sentence_producer'.out.grammar # sentence_producer.out.grammar
              /\ sentence_producer'.out.units # sentence_producer.out.units]_vars

(* ------------------------- claims on the parts of a card --------------- *)

\* the occurrences marked when the words are matched in the order of
\* sorted_tags, each at its first occurrence that overlaps no word marked
\* before it
RECURSIVE MarkLoop(_, _, _, _)
MarkLoop(sentence, sorted_tags, i, marks) ==
    IF i > Len(sorted_tags) THEN marks
    ELSE LET word == sorted_tags[i][1]
             free == {p \in 1..Len(sentence) :
                         /\ OccursAt(word, sentence, p)
                         /\ \A m \in marks : \/ p + Len(word) <= m.at
                                             \/ m.at + Len(m.word) <= p}
         IN  MarkLoop(sentence, sorted_tags, i + 1,
                      IF free = {} THEN marks
                      ELSE marks \cup {[at |-> CHOOSE p \in free :
                                                  \A q \in free : p <= q,
                                        word |-> word,
                                        unit |-> sorted_tags[i][2]]})

\* an untagged stretch of the sentence as a part: stripped, dropped when empty
Untagged(s) == IF Strip(s) = <<>> THEN <<>> ELSE <<<<Strip(s), None>>>>

\* the sentence from position pos on, cut at the marked words
RECURSIVE CutAt(_, _, _)
CutAt(sentence, pos, marks) ==
    IF \A m \in marks : m.at < pos
    THEN Untagged(SubSeq(sentence, pos, Len(sentence)))
    ELSE LET m == CHOOSE m \in marks :
                      /\ m.at >= pos
                      /\ \A n \in marks : n.at >= pos => m.at <= n.at
         IN  Untagged(SubSeq(sentence, pos, m.at - 1))
                 \o <<<<m.word, Some(m.unit)>>>>
                 \o CutAt(sentence, m.at + Len(m.word), marks)

Marked(c) == MarkLoop(c.sentence, SortedTags(c.unit_tags), 1, {})

SplitReturned ==
    /\ flash_card.op = "card"
    /\ flash_card.out.call = "split_into_parts"

\* C33: split_into_parts returns the sentence cut at the marked words, the
\* words marked longest first, each at most once, at its first occurrence in
\* a part not yet tagged; the untagged parts are stripped and the empty ones
\* dropped, and each marked part carries its unit
C33_Parts ==
    SplitReturned
        => flash_card.out.parts = CutAt(flash_card.sentence, 1, Marked(flash_card))

\* a tagged word that begins or ends with white space
EdgeSpace(c) ==
    \E i \in 1..Len(c.unit_tags) : Strip(c.unit_tags[i][1]) # c.unit_tags[i][1]

\* what holds: the parts are as C33 says when a word is marked and no tagged
\* word begins or ends with white space
C33_WhenMarked ==
    (SplitReturned /\ Marked(flash_card) # {} /\ ~EdgeSpace(flash_card))
        => flash_card.out.parts = CutAt(flash_card.sentence, 1, Marked(flash_card))

\* what holds: when no tagged word occurs in the sentence, the sentence is
\* returned whole as it is
C33_Unmarked ==
    (SplitReturned /\ Marked(flash_card) = {})
        => flash_card.out.parts = <<<<flash_card.sentence, None>>>>

\* the shape of test_split_into_parts: a word and a longer word that holds it
C33_TestScenario ==
    (/\ SplitReturned
     /\ flash_card.sentence = <<"a", "b", " ", "b">>
     /\ flash_card.unit_tags = <<<<<<"b">>, <<"u">>>>, <<<<"a", "b">>, <<"v", "v">>>>>>)
        => flash_card.out.parts
               = <<<<<<"a", "b">>, <<<<"v", "v">>>>>>, <<<<"b">>, <<<<"u">>>>>>>>

(* ------------------------- claims on failed reviews -------------------- *)

\* the last nonzero rating of the unit in the modality is a fail or near-fail
LastIsFail(unit, mode) ==
    /\ LastNonZero(HistoryOf(unit), mode) # 0
    /\ HistoryOf(unit)[LastNonZero(HistoryOf(unit), mode)].score \in {1, 2}

\* the units with a card that loads whose last nonzero rating in a configured
\* modality is a fail or near-fail
FailedUnits ==
    {u \in Units :
        cards(u) # <<>> /\ \E i \in 1..Len(modes) : LastIsFail(u, modes[i])}

\* the task of the draw is a unit that is touched and urgent now
DrawsUrgent(urgency_states) ==
    /\ result'.status = "ok"
    /\ urgency_states[result'.unit].is_touched
    /\ UrgPositive(urgency_states[result'.unit].urgency)

\* C34 as stated: while a unit with cards has a fail as its last nonzero
\* rating in a configured modality, every draw selects that unit or another
\* unit whose urgency is positive
C34_Original ==
    [][(DrawStep /\ FailedUnits # {})
           => DrawsUrgent(_compute_urgencies(now))]_vars

\* C34 amended: while a target unit with cards has a fail as its last nonzero
\* rating in a configured modality, every draw, however soon or late, selects
\* that unit or another target unit whose urgency is positive, at the first
\* step of _choose_task
C34_FailResurfaces ==
    [][DrawStep
           => \A urgency_states \in {_compute_urgencies(now)} :
                  (\E u \in FailedUnits : urgency_states[u].is_target)
                      => /\ DrawsUrgent(urgency_states)
                         /\ urgency_states[result'.unit].is_target
                         /\ result'.step = 1]_vars

\* a draw made a block interval or more after the fail has selected the
\* failed unit
C34_Witness ==
    /\ result.op = "draw"
    /\ result.status = "ok"
    /\ result.unit \in FailedUnits
    /\ result.step = 1
    /\ \A i \in 1..Len(HistoryOf(result.unit)) :
           HistoryOf(result.unit)[i].time + BLOCK_INTERVAL <= now

(* ------------------------- claims on the forced rating ----------------- *)

\* a draw that hit the data gap, recorded the forced rating and returned
GapDraw ==
    /\ DrawStep
    /\ result'.status = "ok"
    /\ result'.gap

\* the unit of the task _choose_task returns, or None when it raises
ChosenUnit == 
    LET task == _choose_task(_compute_urgencies(now))
    IN  IF task = None THEN None ELSE Some(task[1].unit)

\* C35: a draw made straight after a draw that hit the data gap for a unit
\* and recorded the forced rating, with no time passed and nothing else
\* changed, does not choose that unit again
C35_NotChosenAgain ==
    [][GapDraw => ChosenUnit' # Some(result'.unit)]_vars

(* ------------------------- claims on the review loop ------------------- *)

\* the place of a call in a cycle: draw, the rates, log_usage, save
CallRank(c) ==
    CASE c.call = "draw" -> 0
      [] c.call = "rate" -> 1
      [] c.call = "log_usage" -> 2
      [] c.call = "save" -> 3

\* the calls since the last draw are that draw, then rates of distinct units
\* shown on the card with the drawn modality and a score of 0, 1 or 3, then
\* at most one log_usage of the drawn card, then at most one save
SerializedCalls(app) ==
    LET c == app.calls
        n == Len(c)
        rates == {k \in 1..n : c[k].call = "rate"}
    IN  /\ n >= 1
        /\ c[1] = CallDraw
        /\ \A k \in 2..n : c[k].call \in {"rate", "log_usage", "save"}
        /\ \A j, k \in 1..n : j < k => CallRank(c[j]) <= CallRank(c[k])
        /\ \A k \in rates :
               /\ c[k].mode = app._mode
               /\ c[k].score \in {0, 1, 3}
               /\ \E b \in 1..Len(app.buttons) : app.buttons[b] = c[k].unit
               /\ \A j \in rates : j # k => c[j].unit # c[k].unit
        /\ Cardinality({k \in 1..n : c[k].call = "log_usage"}) <= 1
        /\ \A k \in 1..n : c[k].call = "log_usage" => c[k].card_id = app._card
        /\ Cardinality({k \in 1..n : c[k].call = "save"}) <= 1

\* the cycle is complete: every unit shown is rated, the usage is logged and
\* the deck is saved as it is
CompleteCycle(app) ==
    /\ SerializedCalls(app)
    /\ {app.buttons[b] : b \in 1..Len(app.buttons)}
           = {app.calls[k].unit : k \in {k \in 1..Len(app.calls) :
                                            app.calls[k].call = "rate"}}
    /\ \E k \in 1..Len(app.calls) : app.calls[k].call = "log_usage"
    /\ app.calls[Len(app.calls)] = CallSave
    /\ app.file = Some(SaveDoc)

\* the app calls draw() in this step
AppDraws ==
    /\ web_app.op = "app"
    /\ web_app'.calls # web_app.calls
    /\ web_app'.calls[Len(web_app'.calls)].call = "draw"

\* C36: within one RatingWebApp each cycle is draw(), one rate() for every
\* tagged unit shown on the drawn card with the drawn modality and a score of
\* 0, 1 or 3, one log_usage() of the drawn card, save(), and then the next
\* draw(); no draw() is made before the cycle is complete, and the deck is
\* saved after every cycle
C36_Serialized ==
    [][/\ web_app'.op = "app" => SerializedCalls(web_app')
       /\ AppDraws => CompleteCycle(web_app)]_vars

\* a second card is drawn after a cycle that rated a unit as a success
C36_Witness ==
    /\ web_app.op = "app"
    /\ web_app.cycles = 1
    /\ web_app.page = "front"
    /\ \E u \in DOMAIN ratings : \E k \in 1..Len(ratings[u]) : ratings[u][k].score = 3
    /\ TotalUses = 1
    /\ result.op = "draw"

(* ------------------------- claims on the blocked first score ----------- *)

\* C37: in needs_introduction a success recorded less than one block interval
\* after the rating before it, of any modality, is not taken as the first score
\* of its modality, and the first rating of the history is never blocked; the
\* success still counts as a success of the modality, and the first later
\* fail, near-fail or unblocked success of the modality is its first score
C37_BlockedSuccess ==
    Len(history) > 0 =>
        \A st \in {IntroScan(history)} :
            \A m \in ModeSet :
                /\ st.first_score[m] = QualifyingFirstScore(history, m)
                /\ st.greens[m] = Successes(history, m)

\* a success of a modality within the block interval of the rating before it,
\* then a fail of that modality, which is its first score
C37_Witness ==
    /\ Len(history) >= 3
    /\ history[1].mode # history[2].mode
    /\ history[2].score = 3
    /\ history[2].time < history[1].time + BLOCK_INTERVAL
    /\ history[3].mode = history[2].mode
    /\ history[3].score = 1
    /\ IntroScan(history).first_score[history[2].mode] = 1
    /\ IntroScan(history).greens[history[2].mode] = 1

(* ------------------------- claims on the tasks of create_cards --------- *)

\* the tasks created and not ended
InFlight == deck_builder.pending + deck_builder.awaiting

\* a task raises in this step and the exception is swallowed
SwallowStep == deck_builder'.swallowed = deck_builder.swallowed + 1

\* swallowing an exception ends one task, releases one permit and leaves the
\* other tasks and the producer loop as they are
SwallowedAlone ==
    SwallowStep =>
        /\ deck_builder'.aborting = deck_builder.aborting
        /\ deck_builder'.pc = deck_builder.pc
        /\ deck_builder'.batch = deck_builder.batch
        /\ deck_builder'.pending = deck_builder.pending
        /\ deck_builder'.awaiting = deck_builder.awaiting - 1
        /\ deck_builder'.unrun = deck_builder.unrun
        /\ deck_builder'._value = deck_builder._value + 1

\* C38 as stated: at most MAX_PARALLELISM tasks are in flight, the permits
\* out are those of the tasks in flight, so that none is leaked or released
\* twice, and an exception in a task is swallowed and cancels nothing
C38_Original ==
    [][/\ InFlight' <= MAX_PARALLELISM
       /\ deck_builder'._value + InFlight' = MAX_PARALLELISM
       /\ SwallowedAlone]_vars

\* C38 amended: at most MAX_PARALLELISM tasks are in flight; every task that
\* has run has released the semaphore once when it has ended and not before,
\* also after an exception; the permits out are those of the tasks in flight
\* and of the tasks that were cancelled before they ran, which happens only
\* when the body of the TaskGroup has raised; an exception in a task is
\* swallowed and cancels nothing
C38_Permits ==
    [][/\ InFlight' <= MAX_PARALLELISM
       /\ deck_builder'._value >= 0
       /\ deck_builder'.released = deck_builder'.ran - deck_builder'.awaiting
       /\ deck_builder'._value + InFlight' + deck_builder'.unrun = MAX_PARALLELISM
       /\ deck_builder'.unrun > 0 => deck_builder'.aborting
       /\ SwallowedAlone]_vars

\* the limit is reached with more builders than permits, after an exception
\* was swallowed
C38_Witness ==
    /\ deck_builder.op = "create_cards"
    /\ deck_builder.swallowed = 1
    /\ deck_builder._value = 0
    /\ InFlight = MAX_PARALLELISM
    /\ deck_builder.created > MAX_PARALLELISM
    /\ deck_builder.pc = "for"
    /\ deck_builder.batch > 0
    /\ ~deck_builder.aborting

(* ------------------------- claims on the tagging loop ------------------ *)

\* a call of add_filtered either makes the tags more and leaves the counter,
\* or adds one to the counter; the tags are never more than the units of the
\* vocabulary; the builder was not done before, and is done after the call
\* exactly when the DONE_AFTER-th call without more tags has been made
TaggingStep ==
    /\ ~TagsDone
    /\ Len(tags_builder'.unit_tags) <= Cardinality(TagVocabulary)
    /\ \/ /\ Len(tags_builder'.unit_tags) > Len(tags_builder.unit_tags)
          /\ tags_builder'._no_progress_counter = tags_builder._no_progress_counter
       \/ /\ Len(tags_builder'.unit_tags) <= Len(tags_builder.unit_tags)
          /\ tags_builder'._no_progress_counter
                 = tags_builder._no_progress_counter + 1
    /\ TagsDone' <=> tags_builder'._no_progress_counter = DONE_AFTER

\* C39: the loop `while not builder.done(): builder.add_filtered(...)` ends
\* for every sequence of tagger answers: each call either makes the tags
\* more, which are never more than the units of the vocabulary, or adds one to
\* the no-progress counter, and done() is false before and true after the
\* first DONE_AFTER calls that do not make the tags more
C39_Terminates ==
    /\ [][TaggingStep]_vars
    /\ <>TagsDone

\* the builder is done after two calls that made the tags more and one that
\* did not
C39_Witness ==
    /\ tags_builder.op = "tags"
    /\ TagsDone
    /\ Len(tags_builder.unit_tags) = 2

(* ------------------------- claims on the pools of the unit producer ---- *)

\* the pools have been filled and the last refill found a unit that lacks
\* fitting cards: done() returns false
NotDone ==
    /\ unit_producer.op = "producer"
    /\ DOMAIN unit_producer._unit_pools # {}
    /\ ~unit_producer._done

\* C40: after any calls of draw, register and done, whenever done() returns
\* false a unit pool is not empty, and the next draw of one unit or more
\* returns a unit at least and a difficulty
C40_PoolWhenNotDone ==
    /\ (/\ unit_producer.op = "producer"
        /\ unit_producer.out.call = "done"
        /\ ~unit_producer.out.value) => NotDone
    /\ NotDone =>
           /\ FilledPools(unit_producer) # {}
           /\ \A count \in DrawCounts :
                  \A out \in {AfterDraw(unit_producer, count).out} :
                      /\ "units" \in DOMAIN out
                      /\ Len(out.units) >= 1
                      /\ out.difficulty # None

\* done() has returned false after a refill that left a unit out of the
\* pools for its many cards
C40_Witness ==
    /\ NotDone
    /\ unit_producer.out.call = "done"
    /\ ~unit_producer.out.value
    /\ \E u \in ProducerUnits :
           /\ u \in SeqSet(unit_producer._units_remaining["A1"])
           /\ u \notin SeqSet(unit_producer._unit_pools["A1"])
           /\ u \notin unit_producer.round_drawn

====
